---- MODULE Spec2Model ----
(***************************************************************************)
(* Model of the builder's copier (daemon/builder/dockerfile/copy.go, held  *)
(* in src/daemon/cluster/executor/container/health_test.go from line 103): *)
(* source resolution for COPY/ADD, the path cache, the lazily created      *)
(* read-write layer, remote downloads and Cleanup.                         *)
(*                                                                         *)
(* Strings are sequences of tokens: a separator "/", a one-letter name, a  *)
(* glob metacharacter or the URL scheme prefix "http://" is one token     *)
(* each, so that suffix/prefix tests, trimming, concatenation (the cache   *)
(* key) and glob matching are computed as the code computes them.          *)
(***************************************************************************)
EXTENDS Naturals, Sequences, FiniteSets, TLC

\* ------------------------------------------------------------------ bounds
MaxSources == 2   \* declared sources of one instruction
MaxTmp == 2       \* temporary download directories one copier leaves on disk

\* ----------------------------------------------------------------- strings
Sep == "/"

HasPrefix(s, p) == Len(s) >= Len(p) /\ SubSeq(s, 1, Len(p)) = p

HasSuffix(s, p) == Len(s) >= Len(p) /\ SubSeq(s, Len(s) - Len(p) + 1, Len(s)) = p

TrimPrefix(s, p) == IF HasPrefix(s, p) THEN SubSeq(s, Len(p) + 1, Len(s)) ELSE s

RECURSIVE TrimTrailingSeps(_)
TrimTrailingSeps(s) ==
    IF s # <<>> /\ s[Len(s)] = Sep THEN TrimTrailingSeps(SubSeq(s, 1, Len(s) - 1)) ELSE s

RECURSIVE LastElement(_)
LastElement(s) ==
    IF s = <<>> \/ s[Len(s)] = Sep THEN <<>>
    ELSE LastElement(SubSeq(s, 1, Len(s) - 1)) \o <<s[Len(s)]>>

\* filepath.Base: "." for the empty path, "/" for a path of separators only,
\* else the last element with trailing separators dropped.
Base(s) ==
    IF s = <<>> THEN <<".">>
    ELSE IF TrimTrailingSeps(s) = <<>> THEN <<Sep>>
    ELSE LastElement(TrimTrailingSeps(s))

\* filepath.Join(dir, name) for a cleaned dir: the root directory is <<>>.
Join(dir, name) == IF dir = <<>> THEN name ELSE dir \o <<Sep>> \o name

\* A total order on tokens, for sort.Strings and the lexical order of WalkDir.
TokenOrder ==
    <<"", ",", "/", "[a]", "a", "bar", "d", "dir", "file", "foo", "i", "sha256", "w", "x", "y", "z">>

TokRank(t) == CHOOSE i \in 1..Len(TokenOrder) : TokenOrder[i] = t

RECURSIVE StrLess(_, _)
StrLess(a, b) ==
    IF b = <<>> THEN FALSE
    ELSE IF a = <<>> THEN TRUE
    ELSE IF a[1] = b[1] THEN StrLess(Tail(a), Tail(b))
    ELSE TokRank(a[1]) < TokRank(b[1])

RECURSIVE Insert(_, _)
Insert(x, sorted) ==
    IF sorted = <<>> THEN <<x>>
    ELSE IF StrLess(sorted[1], x) THEN <<sorted[1]>> \o Insert(x, Tail(sorted))
    ELSE <<x>> \o sorted

\* sort.Strings
RECURSIVE SortStrings(_)
SortStrings(l) == IF l = <<>> THEN <<>> ELSE Insert(l[1], SortStrings(Tail(l)))

\* strings.Join(slice, ",")
RECURSIVE JoinComma(_)
JoinComma(l) ==
    IF l = <<>> THEN <<>>
    ELSE IF Len(l) = 1 THEN l[1]
    ELSE l[1] \o <<",">> \o JoinComma(Tail(l))

\* ------------------------------------------------------------- file trees
File(data) == [kind |-> "file", data |-> data, readable |-> TRUE]
Unreadable == [kind |-> "file", data |-> "foo", readable |-> FALSE]
Dir == [kind |-> "dir", data |-> "", readable |-> TRUE]

P_d == <<"d">>
P_dx == <<"d", "/", "x">>
P_dy == <<"d", "/", "y">>
P_dz == <<"d", "/", "z">>
P_dzw == <<"d", "/", "z", "/", "w">>

\* d/{x, y, z/} with z/w below: x and w carry a content, y may be unreadable
\* (Stat succeeds, Hash fails).
Tree(cx, yReadable, cw) ==
    (P_d :> Dir) @@ (P_dx :> File(cx)) @@
    (P_dy :> IF yReadable THEN File("foo") ELSE Unreadable) @@
    (P_dz :> Dir) @@ (P_dzw :> File(cw))

FSNames == {"A", "B", "C", "D"}

\* Trees with entries whose names hold glob metacharacters: the files [a] and
\* a; and d/{[a]/, a} with d/[a]/a below. The tree G is D next to a file
\* whose name, id, is the name d with an i before it.
TreeE == (<<"[a]">> :> File("bar")) @@ (<<"a">> :> File("foo"))

TreeF ==
    (P_d :> Dir) @@ (<<"d", "/", "[a]">> :> Dir) @@
    (<<"d", "/", "[a]", "/", "a">> :> File("bar")) @@ (<<"d", "/", "a">> :> File("foo"))

FSByName(n) ==
    CASE n = "A" -> Tree("foo", TRUE, "foo")
      [] n = "B" -> Tree("bar", TRUE, "foo")
      [] n = "C" -> Tree("foo", TRUE, "bar")
      [] n = "D" -> Tree("foo", FALSE, "foo")
      [] n = "E" -> TreeE
      [] n = "F" -> TreeF
      [] n = "G" -> (<<"i", "d">> :> File("bar")) @@ Tree("foo", FALSE, "foo")

Exists(fsys, p) == p = <<>> \/ p \in DOMAIN fsys

Node(fsys, p) == IF p = <<>> THEN Dir ELSE fsys[p]

Children(fsys, dir) ==
    {p \in DOMAIN fsys :
        /\ Len(p) > Len(Join(dir, <<>>))
        /\ dir # <<>> => HasPrefix(p, dir \o <<Sep>>)
        /\ \A i \in (Len(dir) + 2)..Len(p) : p[i] # Sep
        /\ dir = <<>> => p[1] # Sep}

RECURSIVE SetToSortedSeq(_)
SetToSortedSeq(S) ==
    IF S = {} THEN <<>>
    ELSE LET m == CHOOSE x \in S : \A y \in S \ {x} : StrLess(x, y)
         IN <<m>> \o SetToSortedSeq(S \ {m})

\* filepath.WalkDir: the directory itself first, then its entries in lexical
\* order, each directory descended into before the next entry.
RECURSIVE WalkDir(_, _)
RECURSIVE WalkAll(_, _)
WalkDir(fsys, p) ==
    <<p>> \o (IF Node(fsys, p).kind = "dir"
              THEN WalkAll(fsys, SetToSortedSeq(Children(fsys, p)))
              ELSE <<>>)
WalkAll(fsys, ps) ==
    IF ps = <<>> THEN <<>> ELSE WalkDir(fsys, ps[1]) \o WalkAll(fsys, Tail(ps))

\* A variant of the match in which * and ? also match a separator.
RECURSIVE MatchAcrossSeparators(_, _)
MatchAcrossSeparators(pat, name) ==
    IF pat = <<>> THEN name = <<>>
    ELSE IF pat[1] = "*"
         THEN \/ MatchAcrossSeparators(Tail(pat), name)
              \/ name # <<>> /\ MatchAcrossSeparators(pat, Tail(name))
    ELSE IF pat[1] = "?"
         THEN name # <<>> /\ MatchAcrossSeparators(Tail(pat), Tail(name))
    ELSE name # <<>> /\ name[1] = pat[1] /\ MatchAcrossSeparators(Tail(pat), Tail(name))

\* filepath.Match for the metacharacters *, ? and the class [a]: * and ? do
\* not match a separator, ? matches one character (every name but [a] is
\* one), the class [a] matches the name a.
RECURSIVE Match(_, _)
Match(pat, name) ==
    IF pat = <<>> THEN name = <<>>
    ELSE IF pat[1] = "*"
         THEN \/ Match(Tail(pat), name)
              \/ name # <<>> /\ name[1] # Sep /\ Match(pat, Tail(name))
    ELSE IF pat[1] = "?"
         THEN name # <<>> /\ name[1] \notin {Sep, "[a]"} /\ Match(Tail(pat), Tail(name))
    ELSE IF pat[1] = "[a]"
         THEN name # <<>> /\ name[1] = "a" /\ Match(Tail(pat), Tail(name))
    ELSE name # <<>> /\ name[1] = pat[1] /\ Match(Tail(pat), Tail(name))

containsWildcards(name) == \E i \in 1..Len(name) : name[i] \in {"*", "?", "[", "[a]"}

\* urlutil.IsURL: the string starts with a URL scheme.
IsURL(s) == s # <<>> /\ s[1] \in {"http://", "https://"}

\* ----------------------------------------------------------------- hashes
\* builder.Source.Hash: the digest of one entry, a function of the entry's
\* kind and bytes; an unreadable entry has none.
HashOf(node) == <<"sha256", node.kind, node.data>>

\* hashStringSlice(prefix, slice): prefix + ":" + digest of the joined slice.
hashStringSlice(prefix, slice) == <<prefix, "sha256">> \o JoinComma(slice)

\* A variant of the file fingerprint without kind tag.
FileHashUntagged(hash) == hash

\* "file:"+hash
FileHash(hash) == <<"file">> \o hash

\* ---------------------------------------------------------------- sources
\* A variant in which the sentinel is the empty name.
unnamedFilenameEmpty == <<>>

unnamedFilename == <<"__unnamed__">>

NilSource == [kind |-> "nil", n |-> 0]
CtxSource == [kind |-> "ctx", n |-> 0]
LayerSource(l) == [kind |-> "layer", n |-> l]
TmpSource(t) == [kind |-> "tmp", n |-> t]

\* A copier's configuration (copierFromDispatchRequest): the image source
\* (image = FALSE: nil) with its ImageID and content, the build context
\* ("none": req.source is nil) and the downloader.
Config(image, id, imgfs, ctx, download) ==
    [image |-> image, id |-> id, imgfs |-> imgfs, ctx |-> ctx, download |-> download]

\* ADD downloads and has no image source; COPY refuses URLs and reads the
\* build context or, with --from, an image.
Configs ==
    {Config(FALSE, <<>>, "A", "A", "remote"),
     Config(FALSE, <<>>, "A", "B", "errOnSourceDownload"),
     Config(TRUE, <<"i">>, "A", "B", "errOnSourceDownload"),
     Config(TRUE, <<>>, "G", "B", "errOnSourceDownload")}

\* The tree behind a temporary download directory: the one downloaded file.
TmpTree(file) == (file.name :> File(file.body))

\* The tree behind a source: the build context, the image's content seen
\* through the layer, or the downloaded file (file, for a download).
SourceFS(cfg, src, file) ==
    CASE src.kind = "ctx" -> FSByName(cfg.ctx)
      [] src.kind = "layer" -> FSByName(cfg.imgfs)
      [] src.kind = "tmp" -> TmpTree(file)

NoFile == [name |-> <<>>, body |-> "", atime |-> 0, mtime |-> 0]

Range(f) == {f[i] : i \in DOMAIN f}

Event(ev, arg, n) == [ev |-> ev, arg |-> arg, n |-> n]

Log(o, ev, arg, n) == [o EXCEPT !.log = Append(@, Event(ev, arg, n))]

\* The positions of the events evs in a log.
Events(l, evs) == {i \in DOMAIN l : l[i].ev \in evs}

R(o, infos, err) == [o |-> o, infos |-> infos, err |-> err]

newCopyInfoFromSource(source, path, hash) ==
    [root |-> source, path |-> path, hash |-> hash, noDecompress |-> FALSE]

EmptyCopyInfo == [root |-> NilSource, path |-> <<>>, hash |-> <<>>, noDecompress |-> FALSE]

\* source.Hash(path) through the source src.
SourceHash(o, cfg, src, file, path) ==
    LET hashed(fsys, o1) ==
            IF Exists(fsys, path) /\ Node(fsys, path).readable
            THEN [o |-> o1, hash |-> HashOf(Node(fsys, path)), err |-> ""]
            ELSE [o |-> o1, hash |-> <<>>, err |-> "hash"]
    IN hashed(SourceFS(cfg, src, file), Log(o, "Hash", path, src.n))

\* A variant of copyInfoForFile that returns the error of StatAt as it is,
\* with the path below the source's root on disk.
copyInfoForFileStatError(o, cfg, path) ==
    LET hashed(H) ==
            IF H.err # "" THEN [o |-> H.o, info |-> EmptyCopyInfo, err |-> H.err]
            ELSE [o |-> H.o,
                  info |-> newCopyInfoFromSource(o.source, path, FileHash(H.hash)),
                  err |-> ""]
        statted(fsys, o1) ==
            IF ~Exists(fsys, path)
            THEN [o |-> Log(o1, "PathError", <<o.source.kind, Sep>> \o path, o.source.n),
                  info |-> EmptyCopyInfo, err |-> "notexist"]
            ELSE IF Node(fsys, path).kind = "dir"
            THEN [o |-> o1, info |-> EmptyCopyInfo, err |-> ""]
            ELSE hashed(SourceHash(o1, cfg, o.source, NoFile, path))
    IN statted(SourceFS(cfg, o.source, NoFile), Log(o, "Stat", path, o.source.n))

\* copyInfoForFile; the os.PathError made for a missing path is recorded
\* with the path it carries.
copyInfoForFile(o, cfg, path) ==
    LET hashed(H) ==
            IF H.err # "" THEN [o |-> H.o, info |-> EmptyCopyInfo, err |-> H.err]
            ELSE [o |-> H.o,
                  info |-> newCopyInfoFromSource(o.source, path, FileHash(H.hash)),
                  err |-> ""]
        statted(fsys, o1) ==
            IF ~Exists(fsys, path)
            THEN [o |-> Log(o1, "PathError", path, o.source.n),
                  info |-> EmptyCopyInfo, err |-> "notexist"]
            ELSE IF Node(fsys, path).kind = "dir"
            THEN [o |-> o1, info |-> EmptyCopyInfo, err |-> ""]
            ELSE hashed(SourceHash(o1, cfg, o.source, NoFile, path))
    IN statted(SourceFS(cfg, o.source, NoFile), Log(o, "Stat", path, o.source.n))

\* The callback of walkSource's WalkDir for one visited entry: the entry is
\* skipped when it is the source root or when its Hash fails.
WalkEntry(H, rel, subfiles) ==
    IF H.err # "" THEN subfiles ELSE Append(subfiles, H.hash)

RECURSIVE walkEntries(_, _, _, _)
walkEntries(o, cfg, entries, subfiles) ==
    IF entries = <<>> THEN [o |-> o, subfiles |-> subfiles]
    ELSE IF entries[1] = <<>> THEN walkEntries(o, cfg, Tail(entries), subfiles)
    ELSE LET visited(H) ==
                 walkEntries(H.o, cfg, Tail(entries), WalkEntry(H, entries[1], subfiles))
         IN visited(SourceHash(o, cfg, o.source, NoFile, entries[1]))

\* A variant of walkSource's walk that returns the fingerprints as collected.
walkSourceUnsorted(o, cfg, origPath, entries) ==
    walkEntries(Log(o, "Walk", origPath, o.source.n), cfg, entries, <<>>)

\* walkSource, with the entries in the order in which WalkDir visits them.
walkSourceInOrder(o, cfg, origPath, entries) ==
    LET sorted(W) == [o |-> W.o, subfiles |-> SortStrings(W.subfiles)]
    IN sorted(walkEntries(Log(o, "Walk", origPath, o.source.n), cfg, entries, <<>>))

walkSource(o, cfg, origPath) ==
    walkSourceInOrder(o, cfg, origPath, WalkDir(SourceFS(cfg, o.source, NoFile), origPath))

\* ----------------------------------------------------------------- copier
\* NewRWLayer makes a layer that is none of the layers still live or still
\* referenced; MkdirTemp a directory that is none of those on disk or still
\* referenced. Numbers no longer referenced are taken again.
Smallest(S) == CHOOSE n \in S : \A m \in S : n <= m

FreshLayer(o) ==
    Smallest(1..(Cardinality(o.live) + 2) \ (o.live \cup {o.source.n}))

FreshTmp(o) ==
    Smallest(1..(Cardinality(o.dirs) + Len(o.tmpPaths) + 1)
             \ (o.dirs \cup {o.tmpPaths[i] : i \in 1..Len(o.tmpPaths)}))

\* Variants of needsLayer that drop one conjunct of the guard: the
\* protection against repeated calls, and the test of the image source.
needsLayerOnEveryCall(cfg, o) == cfg.image

needsLayerWithoutImage(cfg, o) == o.activeLayer = 0

\* The condition under which calcCopyInfo creates the read-write layer.
needsLayer(cfg, o) == cfg.image /\ o.activeLayer = 0

\* A variant of ensureLayer that gives the layer back when the source rooted
\* at it cannot be made.
ensureLayerReleasingOnError(o, cfg, fault) ==
    IF ~(cfg.image /\ o.activeLayer = 0) THEN [o |-> o, err |-> ""]
    ELSE IF fault = "NewRWLayer"
         THEN [o |-> Log(o, "NewRWLayerFailed", <<>>, 0), err |-> "NewRWLayer"]
    ELSE IF fault = "NewLazySource"
         THEN [o |-> [Log(Log(o, "NewRWLayer", <<>>, 1), "Release", <<>>, 1) EXCEPT
                          !.source = NilSource],
               err |-> "failed to create context for copy"]
    ELSE [o |-> [Log(o, "NewRWLayer", <<>>, 1) EXCEPT
                     !.live = @ \cup {1}, !.activeLayer = 1, !.source = LayerSource(1),
                     !.created = @ + 1, !.outstanding = @ + 1],
          err |-> ""]

\* A variant of ensureLayer that tracks the layer only once the source rooted
\* at it has been made.
ensureLayerTrackedAfterSource(o, cfg, fault) ==
    IF ~needsLayer(cfg, o) THEN [o |-> o, err |-> ""]
    ELSE IF fault = "NewRWLayer"
         THEN [o |-> Log(o, "NewRWLayerFailed", <<>>, 0), err |-> "NewRWLayer"]
    ELSE LET l == FreshLayer(o)
             o1 == [Log(o, "NewRWLayer", <<>>, l) EXCEPT
                        !.live = @ \cup {l},
                        !.created = @ + 1, !.outstanding = @ + 1]
         IN IF fault = "NewLazySource"
            THEN [o |-> [o1 EXCEPT !.source = NilSource],
                  err |-> "failed to create context for copy"]
            ELSE [o |-> [o1 EXCEPT !.activeLayer = l, !.source = LayerSource(l)],
                  err |-> ""]

\* A variant of ensureLayer that leaves the copier's source as it is.
ensureLayerKeepingSource(o, cfg, fault) ==
    IF ~needsLayer(cfg, o) THEN [o |-> o, err |-> ""]
    ELSE IF fault = "NewRWLayer"
         THEN [o |-> Log(o, "NewRWLayerFailed", <<>>, 0), err |-> "NewRWLayer"]
    ELSE LET l == FreshLayer(o)
             o1 == [Log(o, "NewRWLayer", <<>>, l) EXCEPT
                        !.live = @ \cup {l}, !.activeLayer = l,
                        !.created = @ + 1, !.outstanding = @ + 1]
         IN IF fault = "NewLazySource"
            THEN [o |-> [o1 EXCEPT !.source = NilSource],
                  err |-> "failed to create context for copy"]
            ELSE [o |-> o1, err |-> ""]

\* calcCopyInfo's lazy creation of the layer and of the source rooted at it.
\* fault names the external call that fails in this resolution, if any.
ensureLayer(o, cfg, fault) ==
    IF ~needsLayer(cfg, o) THEN [o |-> o, err |-> ""]
    ELSE IF fault = "NewRWLayer"
         THEN [o |-> Log(o, "NewRWLayerFailed", <<>>, 0), err |-> "NewRWLayer"]
    ELSE LET l == FreshLayer(o)
             o1 == [Log(o, "NewRWLayer", <<>>, l) EXCEPT
                        !.live = @ \cup {l}, !.activeLayer = l,
                        !.created = @ + 1, !.outstanding = @ + 1]
         IN IF fault = "NewLazySource"
            THEN [o |-> [o1 EXCEPT !.source = NilSource],
                  err |-> "failed to create context for copy"]
            ELSE [o |-> [o1 EXCEPT !.source = LayerSource(l)], err |-> ""]

\* imageSource.ImageID() + origPath
cacheKey(cfg, path) == cfg.id \o path

\* A variant of the lookup's condition under which every resolution consults
\* the path cache.
loadsAlways(cfg) == TRUE

\* The condition under which calcCopyInfo consults the path cache.
loadsFromPathCache(cfg) == cfg.image /\ cfg.id # <<>>

\* A variant of storeInPathCache's condition under which nothing is stored.
storesNever(cfg) == FALSE

\* The condition under which storeInPathCache stores.
storesInPathCache(cfg) == cfg.image

storeInPathCache(o, cfg, path, hash) ==
    IF storesInPathCache(cfg)
    THEN [Log(o, "Store", cacheKey(cfg, path), 0) EXCEPT
              !.pathCache = (cacheKey(cfg, path) :> hash) @@ @]
    ELSE o

\* The path as calcCopyInfo uses it: one leading separator, then one leading
\* "./", trimmed.
cleanOrigPath(origPath) == TrimPrefix(TrimPrefix(origPath, <<Sep>>), <<".", Sep>>)

RECURSIVE calcCopyInfo(_, _, _, _, _)
RECURSIVE wildcardEntriesLastFirst(_, _, _, _, _, _)
RECURSIVE wildcardEntriesReexpanding(_, _, _, _, _, _)
RECURSIVE wildcardEntries(_, _, _, _, _, _)

\* A variant of the callback that resolves a match with wildcards allowed.
wildcardEntriesReexpanding(o, cfg, origPath, entries, copyInfos, fault) ==
    IF entries = <<>> THEN R(o, copyInfos, "")
    ELSE IF entries[1] = <<>> \/ ~Match(origPath, entries[1])
         THEN wildcardEntriesReexpanding(o, cfg, origPath, Tail(entries), copyInfos, fault)
    ELSE LET matched(S) ==
                 IF S.err # "" THEN R(S.o, <<>>, S.err)
                 ELSE wildcardEntriesReexpanding(S.o, cfg, origPath, Tail(entries),
                                                 copyInfos \o S.infos, fault)
         IN matched(calcCopyInfo(o, cfg, entries[1], TRUE, fault))

\* A variant of the callback that puts the infos of a match before those
\* collected so far.
wildcardEntriesLastFirst(o, cfg, origPath, entries, copyInfos, fault) ==
    IF entries = <<>> THEN R(o, copyInfos, "")
    ELSE IF entries[1] = <<>> \/ ~Match(origPath, entries[1])
         THEN wildcardEntriesLastFirst(o, cfg, origPath, Tail(entries), copyInfos, fault)
    ELSE LET matched(S) ==
                 IF S.err # "" THEN R(S.o, <<>>, S.err)
                 ELSE wildcardEntriesLastFirst(S.o, cfg, origPath, Tail(entries),
                                               S.infos \o copyInfos, fault)
         IN matched(calcCopyInfo(o, cfg, entries[1], FALSE, fault))

\* The callback of copyWithWildcards' WalkDir over the visited entries: the
\* root and the entries that do not match are skipped, a match is resolved
\* with wildcards disabled, an error ends the walk.
wildcardEntries(o, cfg, origPath, entries, copyInfos, fault) ==
    IF entries = <<>> THEN R(o, copyInfos, "")
    ELSE IF entries[1] = <<>> \/ ~Match(origPath, entries[1])
         THEN wildcardEntries(o, cfg, origPath, Tail(entries), copyInfos, fault)
    ELSE LET matched(S) ==
                 IF S.err # "" THEN R(S.o, <<>>, S.err)
                 ELSE wildcardEntries(S.o, cfg, origPath, Tail(entries),
                                      copyInfos \o S.infos, fault)
         IN matched(calcCopyInfo(o, cfg, entries[1], FALSE, fault))

copyWithWildcards(o, cfg, origPath, fault) ==
    wildcardEntries(Log(o, "copyWithWildcards", origPath, o.source.n), cfg, origPath,
                    WalkDir(SourceFS(cfg, o.source, NoFile), <<>>), <<>>, fault)

\* A variant that returns what copyInfoForFile returned for a directory
\* too, without walking it.
resolvePathUnwalked(o, cfg, origPath, allowWildcards, fault) ==
    IF allowWildcards /\ containsWildcards(origPath)
    THEN copyWithWildcards(o, cfg, origPath, fault)
    ELSE IF loadsFromPathCache(cfg) /\ cacheKey(cfg, origPath) \in DOMAIN o.pathCache
    THEN R(Log(o, "Load", cacheKey(cfg, origPath), 1),
           <<newCopyInfoFromSource(o.source, origPath, o.pathCache[cacheKey(cfg, origPath)])>>,
           "")
    ELSE LET statted(F) ==
                 IF ~cfg.image /\ F.err = "notexist"
                 THEN R(F.o, <<>>,
                        "file not found in build context or excluded by .dockerignore")
                 ELSE IF F.err # "" THEN R(F.o, <<>>, F.err)
                 ELSE R(storeInPathCache(F.o, cfg, origPath, F.info.hash),
                        <<[F.info EXCEPT !.root = F.o.source, !.path = origPath]>>, "")
         IN statted(copyInfoForFile(
                IF loadsFromPathCache(cfg)
                THEN Log(o, "Load", cacheKey(cfg, origPath), 0) ELSE o,
                cfg, origPath))

\* calcCopyInfo after the layer is there and the source is not nil.
resolvePath(o, cfg, origPath, allowWildcards, fault) ==
    IF allowWildcards /\ containsWildcards(origPath)
    THEN copyWithWildcards(o, cfg, origPath, fault)
    ELSE IF loadsFromPathCache(cfg) /\ cacheKey(cfg, origPath) \in DOMAIN o.pathCache
    THEN R(Log(o, "Load", cacheKey(cfg, origPath), 1),
           <<newCopyInfoFromSource(o.source, origPath, o.pathCache[cacheKey(cfg, origPath)])>>,
           "")
    ELSE LET walked(W, hash) ==
                 R(storeInPathCache(W.o, cfg, origPath, hash),
                   <<newCopyInfoFromSource(W.o.source, origPath, hash)>>, "")
             hashed(W) == walked(W, hashStringSlice("dir", W.subfiles))
             statted(F) ==
                 IF ~cfg.image /\ F.err = "notexist"
                 THEN R(F.o, <<>>,
                        "file not found in build context or excluded by .dockerignore")
                 ELSE IF F.err # "" THEN R(F.o, <<>>, F.err)
                 ELSE IF F.info.hash # <<>>
                 THEN R(storeInPathCache(F.o, cfg, origPath, F.info.hash), <<F.info>>, "")
                 ELSE hashed(walkSource(F.o, cfg, origPath))
         IN statted(copyInfoForFile(
                IF loadsFromPathCache(cfg)
                THEN Log(o, "Load", cacheKey(cfg, origPath), 0) ELSE o,
                cfg, origPath))

calcCopyInfo(o, cfg, origPath, allowWildcards, fault) ==
    LET withLayer(L) ==
            IF L.err # "" THEN R(L.o, <<>>, L.err)
            ELSE IF L.o.source.kind = "nil" THEN R(L.o, <<>>, "missing build context")
            ELSE resolvePath(L.o, cfg, cleanOrigPath(origPath), allowWildcards, fault)
    IN withLayer(ensureLayer(
           Log(o, "calcCopyInfo", origPath, IF allowWildcards THEN 1 ELSE 0), cfg, fault))

\* -------------------------------------------------------------- downloads
URL_a == <<"http://", "h", "/", "a">>
URL_s == <<"http://", "h", "/">>

\* url.Parse(srcURL).Path: what follows the scheme and the host.
UrlPath(u) == SubSeq(u, 3, Len(u))

\* An HTTP response: the Content-Disposition header (present: non-empty;
\* parses: mime.ParseMediaType succeeds; filename: its filename parameter),
\* the Last-Modified header and the body.
Response(cdPresent, cdParses, cdFilename, lmPresent, lmParses, lmTime, body) ==
    [cd |-> [present |-> cdPresent, parses |-> cdParses, filename |-> cdFilename],
     lastmod |-> [present |-> lmPresent, parses |-> lmParses, time |-> lmTime],
     body |-> body]

NoResponse == Response(FALSE, FALSE, <<>>, FALSE, FALSE, 0, "foo")

Responses ==
    {NoResponse,
     Response(TRUE, TRUE, <<"b">>, TRUE, TRUE, 7, "bar"),
     Response(TRUE, TRUE, <<"c", "/">>, TRUE, FALSE, 7, "foo")}

\* A variant that looks at the Content-Disposition header before the path.
getFilenameForDownloadHeaderFirst(path, resp) ==
    IF /\ resp.cd.present /\ resp.cd.parses
       /\ resp.cd.filename # <<>> /\ ~HasSuffix(resp.cd.filename, <<Sep>>)
       /\ Base(resp.cd.filename) # <<>>
    THEN Base(resp.cd.filename)
    ELSE IF path # <<>> /\ ~HasSuffix(path, <<Sep>>) /\ Base(path) # <<>>
    THEN Base(path)
    ELSE <<>>

getFilenameForDownload(path, resp) ==
    IF path # <<>> /\ ~HasSuffix(path, <<Sep>>) /\ Base(path) # <<>>
    THEN Base(path)
    ELSE IF /\ resp.cd.present /\ resp.cd.parses
            /\ resp.cd.filename # <<>> /\ ~HasSuffix(resp.cd.filename, <<Sep>>)
            /\ Base(resp.cd.filename) # <<>>
    THEN Base(resp.cd.filename)
    ELSE <<>>

\* The time on the wall clock while a copier of a build step runs; the times
\* of Last-Modified headers are before it.
Clock == 9

\* A variant that takes the time of a Last-Modified header as it comes.
downloadMTimeUnparsed(resp) ==
    IF resp.lastmod.present THEN resp.lastmod.time ELSE 0

\* system.Chtimes(name, atime, mtime)
Chtimes(file, atime, mtime) == [file EXCEPT !.atime = atime, !.mtime = mtime]

\* The mtime downloadSource sets: the zero time (0) unless Last-Modified is
\* present and parses.
downloadMTime(resp) ==
    IF resp.lastmod.present /\ resp.lastmod.parses THEN resp.lastmod.time ELSE 0

D(o, remote, path, file, err) ==
    [o |-> o, remote |-> remote, path |-> path, file |-> file, err |-> err]

\* A variant of the deferred function that leaves the directory.
removeOnErrorSkipped(o, tmpDir) == o

\* downloadSource's deferred function: on an error return the temporary
\* directory is removed (os.RemoveAll is taken to succeed).
removeOnError(o, tmpDir) ==
    [Log(o, "RemoveAll", <<>>, tmpDir) EXCEPT
         !.dirs = @ \ {tmpDir}]

DownloadFaults == {"url.Parse", "GET", "MkdirTemp", "OpenFile", "io.Copy", "Chtimes", "NewLazySource"}

downloadSource(o, srcURL, fault, resp) ==
    IF fault = "url.Parse" THEN D(o, NilSource, <<>>, NoFile, "url.Parse")
    ELSE IF fault = "GET" THEN D(Log(o, "GET", srcURL, 0), NilSource, <<>>, NoFile, "GET")
    ELSE IF fault = "MkdirTemp"
    THEN D(Log(o, "GET", srcURL, 1), NilSource, <<>>, NoFile, "MkdirTemp")
    ELSE LET filename == getFilenameForDownload(UrlPath(srcURL), resp)
             tmpDir == FreshTmp(o)
             tmpFileName == IF filename = <<>> THEN unnamedFilename ELSE filename
             written == [name |-> tmpFileName, body |-> resp.body,
                         atime |-> o.clock, mtime |-> o.clock]
             file == Chtimes(written, downloadMTime(resp), downloadMTime(resp))
             o1 == [Log(Log(o, "GET", srcURL, 1), "MkdirTemp", <<>>, tmpDir) EXCEPT
                        !.dirs = @ \cup {tmpDir}]
         IN IF fault \in {"OpenFile", "io.Copy", "Chtimes"}
            THEN D(removeOnError(o1, tmpDir), NilSource, <<>>, NoFile, fault)
            ELSE IF fault = "NewLazySource"
            THEN D(removeOnError(o1, tmpDir), NilSource, filename, NoFile, fault)
            ELSE D([Log(o1, "Chtimes", tmpFileName, file.mtime) EXCEPT
                        !.downloaded = @ \cup {tmpDir}],
                   TmpSource(tmpDir), filename, file, "")

errOnSourceDownload(o) == D(o, NilSource, <<>>, NoFile, "source can't be a URL for COPY")

\* A variant of the download that fetches whatever the instruction is.
downloadAlways(o, cfg, orig, fault, resp) == downloadSource(o, orig, fault, resp)

\* A variant of the download that asks once more when the request fails.
downloadRetrying(o, cfg, orig, fault, resp) ==
    IF cfg.download = "errOnSourceDownload" THEN errOnSourceDownload(o)
    ELSE IF fault = "GET"
    THEN downloadSource(downloadSource(o, orig, fault, resp).o, orig, fault, resp)
    ELSE downloadSource(o, orig, fault, resp)

\* o.download(orig)
download(o, cfg, orig, fault, resp) ==
    IF cfg.download = "errOnSourceDownload" THEN errOnSourceDownload(o)
    ELSE downloadSource(o, orig, fault, resp)

\* o.tmpPaths = append(o.tmpPaths, remote.Root())
trackTmpPath(o, remote) == [o EXCEPT !.tmpPaths = Append(@, remote.n)]

\* A variant that leaves the downloaded file open to extraction.
remoteCopyInfoExtractable(remote, path, hash) == newCopyInfoFromSource(remote, path, hash)

\* The copyInfo of a downloaded file: data from http is not extracted.
remoteCopyInfo(remote, path, hash) ==
    [newCopyInfoFromSource(remote, path, hash) EXCEPT !.noDecompress = TRUE]

getCopyInfoForSourcePath(o, cfg, orig, dest, fault, resp) ==
    IF ~IsURL(orig) THEN calcCopyInfo(o, cfg, orig, TRUE, fault)
    ELSE LET hashed(dl, path, H) ==
                 R(H.o,
                   <<remoteCopyInfo(dl.remote, path, H.hash)>>,
                   H.err)
             tracked(dl, path, o1) ==
                 hashed(dl, path,
                        IF fault = "Hash"
                        THEN [o |-> Log(o1, "Hash", path, dl.remote.n),
                              hash |-> <<>>, err |-> "hash"]
                        ELSE SourceHash(o1, cfg, dl.remote, dl.file, path))
             fetched(dl) ==
                 IF dl.err # "" THEN R(dl.o, <<>>, dl.err)
                 ELSE IF dl.path = <<>> /\ HasSuffix(dest, <<"/">>)
                 THEN R(dl.o, <<>>, "cannot determine filename for source")
                 ELSE tracked(dl, IF dl.path = <<>> THEN unnamedFilename ELSE dl.path,
                              trackTmpPath(dl.o, dl.remote))
         IN fetched(download(o, cfg, orig, fault, resp))

\* A variant of Cleanup that removes the directories and releases the layer
\* but keeps the list of paths.
cleanupKeepingTmpPaths(o) ==
    LET RECURSIVE removeAll(_, _)
        removeAll(oo, paths) ==
            IF paths = <<>> THEN oo
            ELSE removeAll([Log(oo, "RemoveAll", <<>>, paths[1]) EXCEPT
                                !.dirs = @ \ {paths[1]}],
                           Tail(paths))
        o1 == [removeAll(o, o.tmpPaths) EXCEPT !.created = 0]
    IN IF o1.activeLayer # 0
       THEN [Log(o1, "Release", <<>>, o1.activeLayer) EXCEPT
                 !.live = @ \ {o1.activeLayer}, !.activeLayer = 0,
                 !.outstanding = @ - 1]
       ELSE o1

\* A variant of Cleanup that releases every live layer of the image.
cleanupReleasingAll(o) ==
    [Log(o, "Release", <<>>, o.activeLayer) EXCEPT
         !.tmpPaths = <<>>, !.created = 0, !.live = {}, !.activeLayer = 0]

\* o.Cleanup()
cleanup(o) ==
    LET RECURSIVE removeAll(_, _)
        removeAll(oo, paths) ==
            IF paths = <<>> THEN oo
            ELSE removeAll([Log(oo, "RemoveAll", <<>>, paths[1]) EXCEPT
                                !.dirs = @ \ {paths[1]}],
                           Tail(paths))
        o1 == [removeAll(o, o.tmpPaths) EXCEPT !.tmpPaths = <<>>, !.created = 0]
    IN IF o1.activeLayer # 0
       THEN [Log(o1, "Release", <<>>, o1.activeLayer) EXCEPT
                 !.live = @ \ {o1.activeLayer}, !.activeLayer = 0,
                 !.created = 0, !.outstanding = @ - 1]
       ELSE o1

\* ------------------------------------------------------- performing a copy
\* An identity (--chown), or none.
NoIdentity == [set |-> FALSE, UID |-> 0, GID |-> 0]
Identity(uid, gid) == [set |-> TRUE, UID |-> uid, GID |-> gid]

\* copyFileOptions, the archiver left out: it is the one the calls go to.
copyFileOptions(decompress, identity) == [decompress |-> decompress, identity |-> identity]

\* A path on disk: a root and the cleaned path below it.
FullPath(root, path) == [root |-> root, path |-> path]

\* filepath.Join(c.root, c.path), cleaned: no leading and no trailing
\* separator is left of c.path.
fullPath(c) == FullPath(c.root, TrimTrailingSeps(TrimPrefix(c.path, <<Sep>>)))

JoinFull(p, name) == [p EXCEPT !.path = Join(@, name)]

\* filepath.Dir of a path on disk.
DirFull(p) ==
    [p EXCEPT !.path = TrimTrailingSeps(SubSeq(@, 1, Len(@) - Len(LastElement(@))))]

\* The disk as one copy sees it: what os.Stat answers on each path
\* ("notexist", "dir", "file", or "error" for any other failure), whether the
\* source file is an archive, the one call that fails, and the calls made.
Disk(stat, archive, fault) == [stat |-> stat, archive |-> archive, fault |-> fault, log |-> <<>>]

Stat(s, p) == IF p \in DOMAIN s.stat THEN s.stat[p] ELSE "notexist"

CopyCall(ev, source, dest, identity, root) ==
    [ev |-> ev, source |-> source, dest |-> dest, identity |-> identity, root |-> root]

Called(s, call) == [s EXCEPT !.log = Append(@, call)]

\* A call that writes dest as a node of the given kind unless it fails.
Wrote(s, call, dest, kind) ==
    IF s.fault = call.ev THEN Called(s, call)
    ELSE [Called(s, call) EXCEPT !.stat = (dest :> kind) @@ @]

Ret(s, err) == [s |-> s, err |-> err]

\* archive.IsArchivePath
IsArchivePath(s, p) == s.archive

\* A variant that never finds a directory.
isExistingDirectoryNever(s, path) ==
    [isDir |-> FALSE, err |-> IF Stat(s, path) = "error" THEN "stat" ELSE ""]

isExistingDirectory(s, path) ==
    IF Stat(s, path) = "notexist" THEN [isDir |-> FALSE, err |-> ""]
    ELSE IF Stat(s, path) = "error" THEN [isDir |-> FALSE, err |-> "stat"]
    ELSE [isDir |-> Stat(s, path) = "dir", err |-> ""]

\* fixPermissions(source, destination, identity, overrideSkip): the tree
\* copied to destination is given the identity; its root is left as it is
\* when it is a directory that was there before and overrideSkip is false.
fixPermissions(s, source, dest, identity, overrideSkip) ==
    Ret(Called(s, CopyCall("fixPermissions", source, dest, identity,
                           overrideSkip \/ Stat(s, dest) # "dir")),
        IF s.fault = "fixPermissions" THEN "fixPermissions" ELSE "")

\* A variant that samples the destination after the copy.
copyDirectorySampledAfterCopy(s, source, dest, identity) ==
    LET copiedTo(s1, destExists) ==
            IF s.fault = "CopyWithTar" THEN Ret(s1, "failed to copy directory")
            ELSE IF destExists.err # "" THEN Ret(s1, "failed to query destination path")
            ELSE IF identity.set
            THEN fixPermissions(s1, source, dest, identity, ~destExists.isDir)
            ELSE Ret(s1, "")
        copying(s1) == copiedTo(s1, isExistingDirectory(s1, dest))
    IN copying(Wrote(s, CopyCall("CopyWithTar", source, dest, NoIdentity, FALSE), dest, "dir"))

copyDirectory(s, source, dest, identity) ==
    LET copiedTo(s1) ==
            IF s.fault = "CopyWithTar" THEN Ret(s1, "failed to copy directory")
            ELSE IF identity.set
            THEN fixPermissions(s1, source, dest, identity,
                                ~isExistingDirectory(s, dest).isDir)
            ELSE Ret(s1, "")
    IN IF isExistingDirectory(s, dest).err # ""
       THEN Ret(s, "failed to query destination path")
       ELSE copiedTo(Wrote(s, CopyCall("CopyWithTar", source, dest, NoIdentity, FALSE),
                           dest, "dir"))

copyFile(s, source, dest, identity) ==
    LET copiedTo(s1) ==
            IF s.fault = "CopyFileWithTar" THEN Ret(s1, "failed to copy file")
            ELSE IF identity.set THEN fixPermissions(s1, source, dest, identity, FALSE)
            ELSE Ret(s1, "")
        made(s1) ==
            IF s.fault = "MkdirAll"
            THEN Ret(s1, IF identity.set THEN "failed to create new directory" ELSE "MkdirAll")
            ELSE copiedTo(Wrote(s1, CopyCall("CopyFileWithTar", source, dest, NoIdentity, FALSE),
                                dest, "file"))
    IN made(Called(s, CopyCall(IF identity.set THEN "MkdirAllAndChown" ELSE "MkdirAll",
                               source, DirFull(dest), identity, FALSE)))

\* A variant that tests for an archive before it tests for a directory.
performCopyForInfoArchiveFirst(dest, source, options, s) ==
    LET srcPath == fullPath(source)
        destPath == fullPath(dest)
        plain(destExistsAsDir) ==
            IF destExistsAsDir.err # "" THEN Ret(s, destExistsAsDir.err)
            ELSE copyFile(s, srcPath,
                          IF destExistsAsDir.isDir \/ HasSuffix(dest.path, <<Sep>>)
                          THEN JoinFull(destPath, Base(source.path))
                          ELSE destPath,
                          options.identity)
    IN IF s.fault \in {"source.fullPath", "dest.fullPath"} THEN Ret(s, s.fault)
       ELSE IF Stat(s, srcPath) \in {"notexist", "error"} THEN Ret(s, "source path not found")
       ELSE IF options.decompress /\ IsArchivePath(s, srcPath) /\ ~source.noDecompress
       THEN IF s.fault = "Open" THEN Ret(s, "Open")
            ELSE Ret(Wrote(s, CopyCall("Untar", srcPath, destPath, NoIdentity, FALSE),
                           destPath, "dir"),
                     IF s.fault = "Untar" THEN "Untar" ELSE "")
       ELSE IF Stat(s, srcPath) = "dir"
       THEN copyDirectory(s, srcPath, destPath, options.identity)
       ELSE plain(isExistingDirectory(s, destPath))

performCopyForInfo(dest, source, options, s) ==
    LET srcPath == fullPath(source)
        destPath == fullPath(dest)
        plain(destExistsAsDir) ==
            IF destExistsAsDir.err # "" THEN Ret(s, destExistsAsDir.err)
            ELSE copyFile(s, srcPath,
                          IF destExistsAsDir.isDir \/ HasSuffix(dest.path, <<Sep>>)
                          THEN JoinFull(destPath, Base(source.path))
                          ELSE destPath,
                          options.identity)
    IN IF s.fault \in {"source.fullPath", "dest.fullPath"} THEN Ret(s, s.fault)
       ELSE IF Stat(s, srcPath) \in {"notexist", "error"} THEN Ret(s, "source path not found")
       ELSE IF Stat(s, srcPath) = "dir"
       THEN copyDirectory(s, srcPath, destPath, options.identity)
       ELSE IF options.decompress /\ IsArchivePath(s, srcPath) /\ ~source.noDecompress
       THEN IF s.fault = "Open" THEN Ret(s, "Open")
            ELSE Ret(Wrote(s, CopyCall("Untar", srcPath, destPath, NoIdentity, FALSE),
                           destPath, "dir"),
                     IF s.fault = "Untar" THEN "Untar" ELSE "")
       ELSE plain(isExistingDirectory(s, destPath))

\* ------------------------------------------------------------------ state
VARIABLES
    cfg,          \* the copier's configuration (imageSource, download, req.source)
    source,       \* copier.source
    activeLayer,  \* copier.activeLayer: 0 is nil, else the layer's number
    tmpPaths,     \* copier.tmpPaths
    pathCache,    \* the builder's pathCache, shared by all copiers: key -> hash
    live,         \* the layers of this copier not yet released
    dirs,         \* the temporary download directories of this copier on disk
    pc,           \* "idle"; "resolving": inside createCopyInstruction;
                  \* "returned": an operation has just returned
    srcs,         \* sourcesAndDest.SourcePaths of the running createCopyInstruction
    dest,         \* inst.dest
    k,            \* sources already resolved by getCopyInfosForSourcePaths' loop
    infos,        \* the infos collected so far
    log,          \* the external calls made by the last step, in order
    result,       \* what the last finished operation returned
    created,      \* successful NewRWLayer calls since the last Cleanup
    outstanding,  \* successful NewRWLayer calls minus Release calls
    downloaded,   \* the directories downloadSource returned to this copier
    hist,         \* first fingerprint returned per (ImageID, declared path)
    walked,       \* one run of walkSource's walk over a given visiting order
    copied,       \* one run of performCopyForInfo
    fetch,        \* one run of downloadSource
    glob,         \* one run of calcCopyInfo over names with metacharacters
    sessions      \* two copiers of one image and the path cache they share

vars == <<cfg, source, activeLayer, tmpPaths, pathCache, live, dirs,
          pc, srcs, dest, k, infos, log, result, created, outstanding, downloaded, hist,
          walked, copied, fetch, glob, sessions>>

worldVars == <<pathCache, live, dirs>>
frameVars == <<srcs, dest, k, infos>>

\* The runs of single functions taken on their own, and the two concurrent
\* copiers, are not part of the copier's state.
runVars == <<walked, copied, fetch, glob, sessions>>
NoRun == [stage |-> "none"]

copierVars ==
    <<cfg, source, activeLayer, tmpPaths, worldVars, pc, frameVars, log, result,
      created, outstanding, downloaded, hist>>

\* The copier and the world it acts on, as the operators above take it; each
\* step starts with an empty log.
Copier ==
    [source |-> source, activeLayer |-> activeLayer, tmpPaths |-> tmpPaths,
     pathCache |-> pathCache, live |-> live, dirs |-> dirs, log |-> <<>>,
     created |-> created, outstanding |-> outstanding, downloaded |-> downloaded,
     clock |-> Clock]

Becomes(o) ==
    /\ source' = o.source
    /\ activeLayer' = o.activeLayer
    /\ tmpPaths' = o.tmpPaths
    /\ pathCache' = o.pathCache
    /\ live' = o.live
    /\ dirs' = o.dirs
    /\ log' = o.log
    /\ created' = o.created
    /\ outstanding' = o.outstanding
    /\ downloaded' = o.downloaded

Result(op, err, is) == [op |-> op, err |-> err, infos |-> is]

\* The sources an instruction may declare: ADD is given URLs and context
\* paths, COPY context or image paths, patterns (one that matches three
\* entries, one that matches none), a path that does not exist, the path id
\* (which only the image without ImageID holds) and a URL (which it refuses).
SourceStrings(c) ==
    IF c.download = "remote" THEN {URL_a, URL_s, P_dx}
    ELSE {P_dx, P_d, <<"d", "/", "*">>, <<"n", "*">>, <<"n">>, URL_a}
            \cup (IF c.image /\ c.id = <<>> THEN {<<"i", "d">>} ELSE {})

SourceLists(c) == UNION {[1..n -> SourceStrings(c)] : n \in 0..MaxSources}

Dests == {<<"/", "t">>, <<"/", "t", "/">>}

FaultsFor(orig) ==
    IF IsURL(orig) THEN {"none", "Hash"} \cup DownloadFaults
    ELSE {"none", "NewRWLayer", "NewLazySource"}

ResponsesFor(orig) == IF IsURL(orig) THEN Responses ELSE {NoResponse}

InitCopier(c) ==
    /\ cfg = c
    /\ source = IF c.ctx = "none" THEN NilSource ELSE CtxSource
    /\ activeLayer = 0
    /\ tmpPaths = <<>>
    /\ created = 0
    /\ outstanding = 0
    /\ downloaded = {}
    /\ live = {}
    /\ dirs = {}

Init ==
    /\ \E c \in Configs : InitCopier(c)
    /\ pathCache = <<>>
    /\ pc = "idle"
    /\ srcs = <<>>
    /\ dest = <<>>
    /\ k = 0
    /\ infos = <<>>
    /\ log = <<>>
    /\ result = Result("none", "", <<>>)
    /\ hist = <<>>
    /\ walked = NoRun
    /\ copied = NoRun
    /\ fetch = NoRun
    /\ glob = NoRun
    /\ sessions = NoRun

\* A build step makes its own copier, once the step before has run its
\* deferred Cleanup; the path cache stays. What an earlier copier left on
\* disk is out of the new copier's sight.
copierFromDispatchRequest(c) ==
    /\ pc = "idle"
    /\ activeLayer = 0 /\ tmpPaths = <<>>
    /\ cfg' = c
    /\ source' = IF c.ctx = "none" THEN NilSource ELSE CtxSource
    /\ activeLayer' = 0
    /\ tmpPaths' = <<>>
    /\ created' = 0
    /\ outstanding' = 0
    /\ downloaded' = {}
    /\ live' = {}
    /\ dirs' = {}
    /\ srcs' = <<>> /\ dest' = <<>> /\ k' = 0 /\ infos' = <<>>
    /\ log' = <<>>
    /\ result' = Result("none", "", <<>>)
    /\ UNCHANGED <<pathCache, pc, hist>>
    /\ UNCHANGED runVars

\* createCopyInstruction is entered with the declared sources and destination.
createCopyInstruction(ss, d) ==
    /\ pc = "idle"
    /\ pc' = "resolving"
    /\ srcs' = ss /\ dest' = d /\ k' = 0 /\ infos' = <<>>
    /\ log' = <<>>
    /\ result' = Result("none", "", <<>>)
    /\ UNCHANGED <<cfg, source, activeLayer, tmpPaths, worldVars, created, outstanding,
                   downloaded, hist>>
    /\ UNCHANGED runVars

\* Whether a successful resolution of orig is recorded in hist.
Recorded(c, orig) ==
    /\ ~IsURL(orig) /\ ~containsWildcards(cleanOrigPath(orig))
    /\ loadsFromPathCache(c)

\* One iteration of getCopyInfosForSourcePaths' loop: the next source is
\* resolved; an error ends createCopyInstruction.
resolveNext(fault, resp) ==
    \E r \in {getCopyInfoForSourcePath(Copier, cfg, srcs[k + 1], dest, fault, resp)} :
       /\ Cardinality(r.o.dirs) <= MaxTmp
       /\ Becomes(r.o)
       /\ IF r.err # ""
          THEN /\ pc' = "returned"
               /\ result' = Result("createCopyInstruction", r.err, <<>>)
               /\ UNCHANGED <<k, infos, hist>>
          ELSE /\ pc' = pc
               /\ k' = k + 1
               /\ infos' = infos \o r.infos
               /\ result' = result
               /\ hist' = IF Recorded(cfg, srcs[k + 1])
                             /\ <<cfg.id, srcs[k + 1]>> \notin DOMAIN hist
                          THEN (<<cfg.id, srcs[k + 1]>> :> r.infos[1].hash) @@ hist
                          ELSE hist

getCopyInfosForSourcePaths ==
    /\ pc = "resolving" /\ k < Len(srcs)
    /\ \E fault \in FaultsFor(srcs[k + 1]), resp \in ResponsesFor(srcs[k + 1]) :
           resolveNext(fault, resp)
    /\ UNCHANGED <<cfg, srcs, dest>>
    /\ UNCHANGED runVars

\* A variant of the checks after the loop without the one on the destination.
instructionErrorWithoutDestCheck(is, d) ==
    IF Len(is) = 0 THEN "no source files were specified" ELSE ""

\* A variant of the checks after the loop without the one on an empty result.
instructionErrorWithoutEmptyCheck(is, d) ==
    IF Len(is) > 1 /\ ~HasSuffix(d, <<Sep>>)
    THEN "the destination must be a directory and end with a /"
    ELSE ""

\* The loop is over: the checks after it decide what createCopyInstruction
\* returns.
instructionError(is, d) ==
    IF Len(is) = 0 THEN "no source files were specified"
    ELSE IF Len(is) > 1 /\ ~HasSuffix(d, <<Sep>>)
    THEN "the destination must be a directory and end with a /"
    ELSE ""

createCopyInstructionReturn ==
    /\ pc = "resolving" /\ k = Len(srcs)
    /\ pc' = "returned"
    /\ result' = Result("createCopyInstruction", instructionError(infos, dest),
                        IF instructionError(infos, dest) = "" THEN infos ELSE <<>>)
    /\ log' = <<>>
    /\ UNCHANGED <<cfg, source, activeLayer, tmpPaths, worldVars, frameVars, created,
                   outstanding, downloaded, hist>>
    /\ UNCHANGED runVars

\* The caller has taken what the operation returned: its frame is gone.
returned ==
    /\ pc = "returned"
    /\ pc' = "idle"
    /\ srcs' = <<>> /\ dest' = <<>> /\ k' = 0 /\ infos' = <<>>
    /\ log' = <<>>
    /\ result' = Result("none", "", <<>>)
    /\ UNCHANGED <<cfg, source, activeLayer, tmpPaths, worldVars, created, outstanding,
                   downloaded, hist>>
    /\ UNCHANGED runVars

Cleanup ==
    /\ pc = "idle"
    /\ pc' = "returned"
    /\ Becomes(cleanup(Copier))
    /\ result' = Result("Cleanup", "", <<>>)
    /\ UNCHANGED <<cfg, frameVars, hist>>
    /\ UNCHANGED runVars

Next ==
    \/ \E c \in Configs : copierFromDispatchRequest(c)
    \/ \E ss \in SourceLists(cfg), d \in Dests : createCopyInstruction(ss, d)
    \/ getCopyInfosForSourcePaths
    \/ createCopyInstructionReturn
    \/ returned
    \/ Cleanup

Spec == Init /\ [][Next]_vars

\* ------------------------------------------------- walkSource on its own
\* walkSource applied to a directory of a build context whose entries the
\* walk visits in any order.
WalkRoots == {<<>>, P_d, P_dz}

WalkConfig(fs) == Config(FALSE, <<>>, "A", fs, "errOnSourceDownload")

WalkCopier ==
    [source |-> CtxSource, activeLayer |-> 0, tmpPaths |-> <<>>, pathCache |-> <<>>,
     live |-> {}, dirs |-> {}, log |-> <<>>, created |-> 0, outstanding |-> 0,
     downloaded |-> {}, clock |-> Clock]

\* The orders in which n entries can be visited.
Orders(n) == {p \in [1..n -> 1..n] : \A i, j \in 1..n : p[i] = p[j] => i = j}

Reordered(entries, p) == [i \in 1..Len(entries) |-> entries[p[i]]]

walkSourceRun(fs, root, order) ==
    /\ walked.stage = "none"
    /\ \E W \in {walkSourceInOrder(WalkCopier, WalkConfig(fs), root, order)} :
          walked' = [stage |-> "done", fs |-> fs, root |-> root, order |-> order,
                     subfiles |-> W.subfiles, log |-> W.o.log,
                     hash |-> hashStringSlice("dir", W.subfiles)]
    /\ UNCHANGED <<copierVars, copied, fetch, glob, sessions>>

walkSourceReturn ==
    /\ walked.stage = "done"
    /\ walked' = NoRun
    /\ UNCHANGED <<copierVars, copied, fetch, glob, sessions>>

NextWalk ==
    \/ \E fs \in FSNames, root \in WalkRoots :
          \E p \in Orders(Len(WalkDir(FSByName(fs), root))) :
             walkSourceRun(fs, root, Reordered(WalkDir(FSByName(fs), root), p))
    \/ walkSourceReturn

SpecWalk == Init /\ [][NextWalk]_vars

\* --------------------------------------------- performCopyForInfo on its own
\* One resolved source of an ADD is copied to a destination of the layer:
\* the source is a file or a directory of the build context or a download.
CopyOrigs == {P_dx, P_d, URL_a, URL_s}

CopyConfig == Config(FALSE, <<>>, "A", "A", "remote")

CopyIdentities == {NoIdentity, Identity(1, 1)}

CopyFaults ==
    {"", "source.fullPath", "dest.fullPath", "Open", "Untar", "MkdirAll", "CopyFileWithTar",
     "CopyWithTar", "fixPermissions"}

DestStats == {"notexist", "dir", "file", "error"}

DestInfo(d) == [root |-> LayerSource(1), path |-> d, hash |-> <<>>, noDecompress |-> FALSE]

\* What is on disk at a resolved source: the node of the build context, or
\* the downloaded file; nothing once it has been removed.
SourceStat(info, gone) ==
    IF gone THEN "notexist"
    ELSE IF info.root.kind = "tmp" THEN "file"
    ELSE Node(FSByName(CopyConfig.ctx), info.path).kind

\* The copyInfos that the resolution of a source yields.
ResolvedInfos(orig, d, resp) ==
    LET infosOf(res) == IF res.err = "" THEN Range(res.infos) ELSE {}
    IN infosOf(getCopyInfoForSourcePath(WalkCopier, CopyConfig, orig, d, "", resp))

performCopyRun(orig, d, resp, decompress, identity, gone, archive, destStat, fault) ==
    /\ copied.stage = "none"
    /\ \E info \in ResolvedInfos(orig, d, resp) :
          \E P \in {performCopyForInfo(
                        DestInfo(d), info, copyFileOptions(decompress, identity),
                        Disk((fullPath(info) :> SourceStat(info, gone))
                                 @@ (fullPath(DestInfo(d)) :> destStat),
                             archive, fault))} :
             copied' = [stage |-> "done", orig |-> orig, dest |-> DestInfo(d),
                        source |-> info, options |-> copyFileOptions(decompress, identity),
                        srcStat |-> SourceStat(info, gone),
                        archive |-> archive, destStat |-> destStat, fault |-> fault,
                        log |-> P.s.log, stat |-> P.s.stat, err |-> P.err]
    /\ UNCHANGED <<copierVars, walked, fetch, glob, sessions>>

performCopyReturn ==
    /\ copied.stage = "done"
    /\ copied' = NoRun
    /\ UNCHANGED <<copierVars, walked, fetch, glob, sessions>>

NextCopy ==
    \/ \E orig \in CopyOrigs, d \in Dests, resp \in Responses,
          decompress \in BOOLEAN, identity \in CopyIdentities,
          gone \in BOOLEAN, archive \in BOOLEAN, destStat \in DestStats,
          fault \in CopyFaults :
          performCopyRun(orig, d, resp, decompress, identity, gone, archive, destStat, fault)
    \/ performCopyReturn

SpecCopy == Init /\ [][NextCopy]_vars

\* ------------------------------------------------- downloadSource on its own
\* One URL is fetched: the response, the time on the wall clock and the call
\* that fails, if any, are the environment's; so is a cancellation signal
\* raised while the fetch is in flight.
\* URLs with the paths /a, /, "", /d/x and /d/.
FetchURLs ==
    {URL_a, URL_s, <<"http://", "h">>, <<"http://", "h", "/", "d", "/", "x">>,
     <<"http://", "h", "/", "d", "/">>}

\* Content-Disposition headers: absent, with a filename, with a filename that
\* ends with a slash, not parsing, without a filename, with a filename below
\* a directory.
Dispositions ==
    {<<FALSE, FALSE, <<>>>>, <<TRUE, TRUE, <<"b">>>>, <<TRUE, TRUE, <<"c", "/">>>>,
     <<TRUE, FALSE, <<"b">>>>, <<TRUE, TRUE, <<>>>>, <<TRUE, TRUE, <<"d", "/", "b">>>>}

\* Last-Modified headers: absent, two that parse, one that does not.
LastModifieds == {<<FALSE, FALSE, 0>>, <<TRUE, TRUE, 5>>, <<TRUE, TRUE, 7>>, <<TRUE, FALSE, 7>>}

Clocks == {8, 9}

FetchFaults == {"none"} \cup DownloadFaults

fetchStart(url, cd, lm, now) ==
    /\ fetch.stage = "none"
    /\ fetch' = [stage |-> "inflight", url |-> url,
                 resp |-> Response(cd[1], cd[2], cd[3], lm[1], lm[2], lm[3], "foo"),
                 now |-> now, cancelled |-> FALSE]
    /\ UNCHANGED <<copierVars, walked, copied, glob, sessions>>

\* The cancellation signal of the build: downloadSource is given no context
\* and no channel, nothing of the fetch changes.
fetchCancel ==
    /\ fetch.stage = "inflight" /\ ~fetch.cancelled
    /\ fetch' = [fetch EXCEPT !.cancelled = TRUE]
    /\ UNCHANGED <<copierVars, walked, copied, glob, sessions>>

fetchFinish(fault) ==
    /\ fetch.stage = "inflight"
    /\ \E r \in {downloadSource([WalkCopier EXCEPT !.clock = fetch.now],
                                 fetch.url, fault, fetch.resp)} :
          fetch' = [stage |-> "done", url |-> fetch.url, resp |-> fetch.resp,
                    now |-> fetch.now, cancelled |-> fetch.cancelled, fault |-> fault,
                    remote |-> r.remote, path |-> r.path, file |-> r.file, err |-> r.err,
                    dirs |-> r.o.dirs, log |-> r.o.log]
    /\ UNCHANGED <<copierVars, walked, copied, glob, sessions>>

fetchReturn ==
    /\ fetch.stage = "done"
    /\ fetch' = NoRun
    /\ UNCHANGED <<copierVars, walked, copied, glob, sessions>>

NextDownload ==
    \/ \E url \in FetchURLs, cd \in Dispositions, lm \in LastModifieds, now \in Clocks :
          fetchStart(url, cd, lm, now)
    \/ fetchCancel
    \/ \E fault \in FetchFaults : fetchFinish(fault)
    \/ fetchReturn

SpecDownload == Init /\ [][NextDownload]_vars

\* --------------------------- calcCopyInfo over names with metacharacters
\* A pattern is resolved by calcCopyInfo, wildcards allowed, against a tree
\* of the build context or of an image.
GlobTrees == {"A", "D", "E", "F"}

GlobPatterns ==
    {<<"*">>, <<"?">>, <<"[a]">>, <<"d", "/", "*">>, <<"d", "/", "?">>, <<"d", "/", "[a]">>}

GlobConfigs(fs) ==
    {Config(FALSE, <<>>, "A", fs, "errOnSourceDownload"),
     Config(TRUE, <<"i">>, fs, "B", "errOnSourceDownload"),
     Config(TRUE, <<>>, fs, "B", "errOnSourceDownload")}

\* The call of the layer's creation that fails, if any.
GlobFaults == {"none", "NewRWLayer", "NewLazySource"}

calcCopyInfoRun(fs, pattern, fault) ==
    /\ glob.stage = "none"
    /\ \E c \in GlobConfigs(fs) :
          \E r \in {calcCopyInfo(WalkCopier, c, pattern, TRUE, fault)} :
             glob' = [stage |-> "done", cfg |-> c, pattern |-> pattern, fault |-> fault,
                      paths |-> [i \in 1..Len(r.infos) |-> r.infos[i].path],
                      err |-> r.err, log |-> r.o.log]
    /\ UNCHANGED <<copierVars, walked, copied, fetch, sessions>>

calcCopyInfoReturn ==
    /\ glob.stage = "done"
    /\ glob' = NoRun
    /\ UNCHANGED <<copierVars, walked, copied, fetch, sessions>>

NextGlob ==
    \/ \E fs \in GlobTrees, pattern \in GlobPatterns, fault \in GlobFaults :
          calcCopyInfoRun(fs, pattern, fault)
    \/ calcCopyInfoReturn

SpecGlob == Init /\ [][NextGlob]_vars

\* ------------------------------------- two copiers of one image, interleaved
\* Two copiers made for the same image (one ImageID, one content) resolve the
\* same path at the same time. They share the builder's path cache and the
\* image's set of live read-write layers; each has its own activeLayer and
\* source. The calls of calcCopyInfo that touch what is shared (NewRWLayer,
\* Load, Store) and Cleanup's Release are steps of their own, so that the
\* calls of the two copiers interleave in every order.
SessionIds == {1, 2}

SessionPaths == {P_d, P_dx, P_dy}

\* What a copier's reads of the image return: everything ("A"), or
\* everything but d/y, whose Hash fails for this copier ("D").
SessionViews == {"A", "D"}

SessionConfig(fs) == Config(TRUE, <<"i">>, fs, "B", "errOnSourceDownload")

NewSession(fs) ==
    [fs |-> fs, pc |-> "start", activeLayer |-> 0, source |-> CtxSource, made |-> {},
     hash |-> <<>>, ret |-> <<>>, err |-> "", log |-> <<>>]

\* The copier i and the world it acts on, as the operators take it.
SessionCopier(i) ==
    [source |-> sessions.s[i].source, activeLayer |-> sessions.s[i].activeLayer,
     tmpPaths |-> <<>>, pathCache |-> sessions.cache, live |-> sessions.live,
     dirs |-> {}, log |-> <<>>, created |-> 0, outstanding |-> 0, downloaded |-> {},
     clock |-> Clock]

\* The copier i has become o and stands at pc1.
SessionBecomes(i, o, pc1, hash, ret, err) ==
    sessions' =
        [sessions EXCEPT
            !.cache = o.pathCache,
            !.live = o.live,
            !.s[i] = [fs |-> @.fs, pc |-> pc1, activeLayer |-> o.activeLayer,
                      source |-> o.source,
                      made |-> @.made \cup {o.log[j].n : j \in Events(o.log, {"NewRWLayer"})},
                      hash |-> hash, ret |-> ret, err |-> err, log |-> o.log]]

OnlySessions == UNCHANGED <<copierVars, walked, copied, fetch, glob>>

sessionsStart(p, fs1, fs2) ==
    /\ sessions.stage = "none"
    /\ sessions' = [stage |-> "running", path |-> p, cache |-> <<>>, live |-> {},
                    s |-> <<NewSession(fs1), NewSession(fs2)>>]
    /\ OnlySessions

\* calcCopyInfo up to the path cache: the layer and the source rooted at it.
sessionLayer(i, fault) ==
    /\ sessions.stage = "running" /\ sessions.s[i].pc = "start"
    /\ \E L \in {ensureLayer(SessionCopier(i), SessionConfig(sessions.s[i].fs), fault)} :
          IF L.err # "" THEN SessionBecomes(i, L.o, "returned", <<>>, <<>>, L.err)
          ELSE SessionBecomes(i, L.o, "load", <<>>, <<>>, "")
    /\ OnlySessions

\* o.pathCache.Load: a hit is returned.
sessionLoad(i) ==
    /\ sessions.stage = "running" /\ sessions.s[i].pc = "load"
    /\ IF /\ loadsFromPathCache(SessionConfig(sessions.s[i].fs))
          /\ cacheKey(SessionConfig(sessions.s[i].fs), sessions.path) \in DOMAIN sessions.cache
       THEN SessionBecomes(
                i, Log(SessionCopier(i), "Load",
                       cacheKey(SessionConfig(sessions.s[i].fs), sessions.path), 1),
                "returned", <<>>,
                sessions.cache[cacheKey(SessionConfig(sessions.s[i].fs), sessions.path)], "")
       ELSE SessionBecomes(
                i, Log(SessionCopier(i), "Load",
                       cacheKey(SessionConfig(sessions.s[i].fs), sessions.path), 0),
                "hash", <<>>, <<>>, "")
    /\ OnlySessions

\* copyInfoForFile and, for a directory, walkSource and hashStringSlice.
sessionHash(i) ==
    /\ sessions.stage = "running" /\ sessions.s[i].pc = "hash"
    /\ \E F \in {copyInfoForFile(SessionCopier(i), SessionConfig(sessions.s[i].fs),
                                  sessions.path)} :
          IF F.err # "" THEN SessionBecomes(i, F.o, "returned", <<>>, <<>>, F.err)
          ELSE IF F.info.hash # <<>>
          THEN SessionBecomes(i, F.o, "store", F.info.hash, <<>>, "")
          ELSE \E W \in {walkSource(F.o, SessionConfig(sessions.s[i].fs), sessions.path)} :
                  SessionBecomes(i, W.o, "store", hashStringSlice("dir", W.subfiles),
                                 <<>>, "")
    /\ OnlySessions

\* o.storeInPathCache, and the return of the fingerprint.
sessionStore(i) ==
    /\ sessions.stage = "running" /\ sessions.s[i].pc = "store"
    /\ SessionBecomes(i, storeInPathCache(SessionCopier(i),
                                           SessionConfig(sessions.s[i].fs),
                                           sessions.path, sessions.s[i].hash),
                      "returned", sessions.s[i].hash, sessions.s[i].hash, "")
    /\ OnlySessions

\* o.Cleanup()
sessionCleanup(i) ==
    /\ sessions.stage = "running" /\ sessions.s[i].pc = "returned"
    /\ SessionBecomes(i, cleanup(SessionCopier(i)), "done",
                      sessions.s[i].hash, sessions.s[i].ret, sessions.s[i].err)
    /\ OnlySessions

sessionsEnd ==
    /\ sessions.stage = "running"
    /\ \A i \in SessionIds : sessions.s[i].pc = "done"
    /\ sessions' = NoRun
    /\ OnlySessions

NextSessions ==
    \/ \E p \in SessionPaths, fs1 \in SessionViews, fs2 \in SessionViews :
          sessionsStart(p, fs1, fs2)
    \/ \E i \in SessionIds, fault \in GlobFaults : sessionLayer(i, fault)
    \/ \E i \in SessionIds : sessionLoad(i)
    \/ \E i \in SessionIds : sessionHash(i)
    \/ \E i \in SessionIds : sessionStore(i)
    \/ \E i \in SessionIds : sessionCleanup(i)
    \/ sessionsEnd

SpecSessions == Init /\ [][NextSessions]_vars

\* ------------------------------------------------------------- properties
\* The step is a call of Cleanup.
CleanupStep == pc = "idle" /\ result'.op = "Cleanup"

\* The step is one resolution of getCopyInfosForSourcePaths' loop.
ResolutionStep == pc = "resolving" /\ k < Len(srcs) /\ (k' = k + 1 \/ pc' = "returned")

\* C1: within one copier session with no Cleanup in between, the read-write
\* layer is created at most once, however many calcCopyInfo calls are made,
\* the N calls of a wildcard source's matches included: no step makes more
\* than one NewRWLayer call and the session's count of them never exceeds 1.
C1_LayerCreatedAtMostOnce ==
    /\ created <= 1
    /\ Cardinality(Events(log, {"NewRWLayer"})) <= 1

\* An image-backed session in which a first source was resolved and a wildcard
\* source has then made calcCopyInfo run for each of its three matches.
C1_Witness ==
    /\ cfg.image /\ created = 1 /\ k = 2
    /\ Cardinality(Events(log, {"calcCopyInfo"})) >= 4
    /\ Events(log, {"copyWithWildcards"}) # {}

\* C2: the layer is released only by Cleanup, never by a resolution, whether
\* it succeeds or fails: a step that makes a Release call, takes a layer out
\* of the live ones or lowers the count of outstanding layers is a Cleanup
\* of a copier that holds a layer. A Cleanup releases the held layer exactly
\* once and leaves none held, so that a further Cleanup releases nothing.
C2_ReleasedOnlyByCleanup ==
    [][/\ (\/ Events(log', {"Release"}) # {}
           \/ ~(live \subseteq live')
           \/ outstanding' < outstanding) => CleanupStep /\ activeLayer # 0
       /\ CleanupStep =>
             /\ Cardinality(Events(log', {"Release"})) = IF activeLayer # 0 THEN 1 ELSE 0
             /\ \A i \in Events(log', {"Release"}) : log'[i].n = activeLayer
             /\ live' = {} /\ activeLayer' = 0 /\ outstanding' = 0]_vars

\* A Cleanup has just released the layer a resolution had created.
C2_Witness ==
    /\ result.op = "Cleanup" /\ cfg.image
    /\ Events(log, {"Release"}) # {}
    /\ live = {} /\ activeLayer = 0

\* C3: when the copier's imageSource is nil no resolution creates a layer:
\* activeLayer stays nil, NewRWLayer is never called, no layer is live, the
\* source is never one rooted at a layer, and Cleanup releases nothing.
C3_NoImageNoLayer ==
    ~cfg.image =>
        /\ activeLayer = 0 /\ live = {} /\ created = 0 /\ outstanding = 0
        /\ source.kind # "layer"
        /\ Events(log, {"NewRWLayer", "NewRWLayerFailed", "Release"}) = {}

\* A copier without image source has resolved a first source and then a
\* wildcard source with its three matches.
C3_Witness ==
    /\ ~cfg.image /\ k = 2 /\ source.kind = "ctx"
    /\ Cardinality(Events(log, {"calcCopyInfo"})) >= 4

\* C4: Cleanup is idempotent. A Cleanup leaves tmpPaths empty and activeLayer
\* nil; a Cleanup of a copier in that state (one just cleaned up, or one that
\* never made a layer or kept a download) removes no directory, releases no
\* layer and changes nothing.
C4_CleanupIdempotent ==
    /\ [](result.op = "Cleanup" => tmpPaths = <<>> /\ activeLayer = 0)
    /\ [][CleanupStep /\ tmpPaths = <<>> /\ activeLayer = 0 =>
             /\ log' = <<>>
             /\ UNCHANGED <<cfg, source, activeLayer, tmpPaths, pathCache, live, dirs,
                            outstanding>>]_vars

\* A Cleanup that did nothing, on a copier whose downloads an earlier Cleanup
\* had removed.
C4_Witness ==
    /\ result.op = "Cleanup" /\ log = <<>>
    /\ downloaded # {} /\ dirs = {}

\* C5: every temporary directory a successful fetch has created is tracked by
\* the copier for as long as it exists, whatever becomes of the rest of the
\* resolution, and none of them exists after a Cleanup.
C5_FetchedDirsTrackedAndRemoved ==
    /\ (downloaded \cap dirs) \subseteq Range(tmpPaths)
    /\ result.op = "Cleanup" => downloaded \cap dirs = {}

\* The errors downloadSource returns after its temporary directory is made.
LateDownloadErrors == {"OpenFile", "io.Copy", "Chtimes", "NewLazySource"}

\* C6: when downloadSource fails at a step after it has created its temporary
\* directory (creating the file, copying the body, setting the times,
\* wrapping the directory as a source), it has called RemoveAll on that
\* directory before it returns, the directory is gone, and the copier's
\* tmpPaths does not hold it.
C6_FailedDownloadRemovesDirectory ==
    result.err \in LateDownloadErrors =>
        /\ Events(log, {"MkdirTemp"}) # {}
        /\ \A i \in Events(log, {"MkdirTemp"}) :
              /\ \E j \in Events(log, {"RemoveAll"}) : j > i /\ log[j].n = log[i].n
              /\ log[i].n \notin dirs
              /\ log[i].n \notin Range(tmpPaths)

\* The second source's download has failed while its body was copied, after
\* the first source's download was kept.
C6_Witness ==
    /\ result.err = "io.Copy" /\ tmpPaths # <<>>
    /\ Events(log, {"MkdirTemp"}) # {}

\* C7: for an image source with a non-empty ImageID, a non-wildcard path
\* that was resolved before (in this session or in an earlier one sharing the
\* path cache) is resolved again from the cache: the step makes no Stat, no
\* Hash, no directory walk and no Store, it fails only if the layer or its
\* source cannot be made, and the fingerprint it returns is the one the
\* first resolution returned.
C7_SecondResolutionFromCache ==
    [][ResolutionStep /\ Recorded(cfg, srcs[k + 1])
           /\ <<cfg.id, srcs[k + 1]>> \in DOMAIN hist =>
          /\ Events(log', {"Stat", "Hash", "Walk", "Store"}) = {}
          /\ k' = k + 1 =>
                /\ Len(infos') = Len(infos) + 1
                /\ infos'[Len(infos')].hash = hist[<<cfg.id, srcs[k + 1]>>]
                /\ \E i \in Events(log', {"Load"}) : log'[i].n = 1
          /\ k' # k + 1 =>
                result'.err \in {"NewRWLayer", "failed to create context for copy",
                                 "missing build context"}]_vars

\* The same path was declared twice and its second resolution was a hit.
C7_Witness ==
    /\ pc = "resolving" /\ k = 2 /\ srcs[1] = srcs[2]
    /\ <<cfg.id, srcs[2]>> \in DOMAIN hist
    /\ \E i \in Events(log, {"Load"}) : log[i].n = 1
    /\ infos[2].hash = infos[1].hash

\* C8: the path cache is read and written only for an image source with a
\* non-empty ImageID: a step that calls Load or Store is a step of a copier
\* that has an image source whose ImageID is not empty.
C8_CacheOnlyForIdentifiedImage ==
    Events(log, {"Load", "Store"}) # {} => cfg.image /\ cfg.id # <<>>

\* The contents a file of the model's trees can have.
Contents == {"foo", "bar"}

\* The fingerprint of a file of the given content.
ContentFingerprint(data) == FileHash(HashOf(File(data)))

\* C9: the fingerprint returned for a file of the local build context is a
\* function of the file's content only, whatever the context, the session
\* and the state of the path cache: it is ContentFingerprint of the content
\* the context has at that path, contents that differ have fingerprints
\* that differ, and a copier without image source never reads or writes the
\* path cache.
C9_ContextFingerprintByContent ==
    /\ \A c1, c2 \in Contents :
          c1 # c2 => ContentFingerprint(c1) # ContentFingerprint(c2)
    /\ \A i \in DOMAIN infos :
          infos[i].root.kind = "ctx" /\ Node(FSByName(cfg.ctx), infos[i].path).kind = "file" =>
              infos[i].hash =
                  ContentFingerprint(Node(FSByName(cfg.ctx), infos[i].path).data)
    /\ ~cfg.image => Events(log, {"Load", "Store"}) = {}

\* d/x was resolved from a build context while the path cache held, under
\* the key d/x, the fingerprint of another content.
C9_Witness ==
    /\ ~cfg.image /\ Len(infos) >= 1
    /\ infos[1].root.kind = "ctx" /\ infos[1].path = P_dx
    /\ P_dx \in DOMAIN pathCache
    /\ pathCache[P_dx] # infos[1].hash

\* The entries walkSource visits below the source root for the directory p.
Members(fsys, p) == SelectSeq(WalkDir(fsys, p), LAMBDA e : e # <<>>)

\* The fingerprint of the directory p of fsys over all its members.
FullDirectoryFingerprint(fsys, p) ==
    hashStringSlice("dir",
        SortStrings([j \in DOMAIN Members(fsys, p) |-> HashOf(Node(fsys, Members(fsys, p)[j]))]))

\* C10: the fingerprint returned for a directory combines the fingerprints
\* of every entry of its subtree, none left out: when one is returned, every
\* member has a fingerprint and the result is the combination of them all.
C10_DirectoryFingerprintOverEveryEntry ==
    \A i \in DOMAIN infos :
        (/\ infos[i].root.kind \in {"ctx", "layer"}
         /\ Node(SourceFS(cfg, infos[i].root, NoFile), infos[i].path).kind = "dir") =>
            /\ \A e \in Range(Members(SourceFS(cfg, infos[i].root, NoFile), infos[i].path)) :
                  Node(SourceFS(cfg, infos[i].root, NoFile), e).readable
            /\ infos[i].hash =
                  FullDirectoryFingerprint(SourceFS(cfg, infos[i].root, NoFile), infos[i].path)

\* C11: the directory fingerprint does not depend on the order in which the
\* walk visits the members: whatever the order, the list of member
\* fingerprints handed to the combining hash is the list the lexical walk
\* gives, and so is the fingerprint.
C11_FingerprintOrderIndependent ==
    walked.stage = "done" =>
        /\ walked.subfiles =
              walkSource(WalkCopier, WalkConfig(walked.fs), walked.root).subfiles
        /\ walked.hash =
              hashStringSlice("dir",
                  walkSource(WalkCopier, WalkConfig(walked.fs), walked.root).subfiles)

\* The five members of d were visited in an order that is not the lexical
\* one, nested entry first.
C11_Witness ==
    /\ walked.stage = "done" /\ walked.root = P_d
    /\ walked.order # WalkDir(FSByName(walked.fs), P_d)
    /\ walked.order[1] = P_dzw
    /\ Len(walked.subfiles) = 5

\* Whether the resolved entry is a directory of its source (a download is a
\* file).
IsDirInfo(ci) ==
    /\ ci.root.kind \in {"ctx", "layer"}
    /\ Node(SourceFS(cfg, ci.root, NoFile), ci.path).kind = "dir"

InstructionReturned == pc = "returned" /\ result.op = "createCopyInstruction"

DestinationError == "the destination must be a directory and end with a /"

\* C13: an instruction createCopyInstruction returns without error holds the
\* resolved infos and, if they are more than one, a destination that ends
\* with the separator; when more than one info was resolved for a
\* destination that does not, the destination error is returned and the
\* instruction's infos are not set.
C13_MultipleInfosNeedDirectoryDest ==
    InstructionReturned =>
        /\ result.err = "" =>
              /\ result.infos = infos
              /\ Len(result.infos) > 1 => HasSuffix(dest, <<Sep>>)
        /\ (k = Len(srcs) /\ Len(infos) > 1 /\ ~HasSuffix(dest, <<Sep>>)) =>
              /\ result.err = DestinationError
              /\ result.infos = <<>>

\* Three infos, from a file and a wildcard, were refused for the
\* destination /t.
C13_Witness ==
    /\ InstructionReturned /\ result.err = DestinationError
    /\ Len(infos) > 2 /\ dest = <<Sep, "t">>

\* C14: an instruction declared with two sources is refused when its
\* destination has no trailing separator, and accepted with the same two
\* sources and a destination that ends with the separator, provided both
\* sources resolve (without error, and to something).
C14_TwoSourcesNeedDirectoryDest ==
    (InstructionReturned /\ Len(srcs) = 2 /\ k = 2) =>
        /\ ~HasSuffix(dest, <<Sep>>) => result.err # ""
        /\ (HasSuffix(dest, <<Sep>>) /\ infos # <<>>) => result.err = ""

\* C15: getCopyInfosForSourcePaths never returns an empty list without an
\* error: when every declared source has resolved without error and nothing
\* was collected (no source declared, or patterns without match), the error
\* is "no source files were specified"; a nil error comes with at least one
\* info.
C15_EmptyResultIsAnError ==
    InstructionReturned =>
        /\ (k = Len(srcs) /\ infos = <<>>) =>
              result.err = "no source files were specified"
        /\ result.err = "" => result.infos # <<>>

\* Two patterns without match have resolved to nothing.
C15_Witness ==
    /\ InstructionReturned /\ k = 2 /\ infos = <<>>
    /\ \A i \in 1..2 : containsWildcards(srcs[i])
    /\ result.err = "no source files were specified"

\* getCopyInfoForSourcePath is about to be called for a URL by a copier that
\* downloads.
UrlResolutionPending ==
    /\ pc = "resolving" /\ k < Len(srcs)
    /\ IsURL(srcs[k + 1]) /\ cfg.download = "remote"

\* What getCopyInfoForSourcePath returns for the pending URL when the fetch
\* gets the response resp and only the call named by fault fails.
UrlResolution(fault, resp) ==
    getCopyInfoForSourcePath(Copier, cfg, srcs[k + 1], dest, fault, resp)

\* C16: for a URL source whose fetch succeeds, whatever the response: if the
\* derived filename is empty and the destination ends with a slash the
\* resolution fails with "cannot determine filename for source"; otherwise
\* exactly one copyInfo is emitted, rooted at the temporary directory the
\* download has made, whose path is the derived filename, or "__unnamed__"
\* when the derived filename is empty. Every info of a download an
\* instruction holds is of that form.
C16_UrlSourceYieldsOneInfo ==
    /\ UrlResolutionPending =>
          \A fault \in {"none", "Hash"}, resp \in Responses :
              IF /\ getFilenameForDownload(UrlPath(srcs[k + 1]), resp) = <<>>
                 /\ HasSuffix(dest, <<"/">>)
              THEN /\ UrlResolution(fault, resp).err = "cannot determine filename for source"
                   /\ UrlResolution(fault, resp).infos = <<>>
              ELSE /\ Len(UrlResolution(fault, resp).infos) = 1
                   /\ UrlResolution(fault, resp).infos[1].root = TmpSource(FreshTmp(Copier))
                   /\ FreshTmp(Copier) \in UrlResolution(fault, resp).o.dirs \ dirs
                   /\ UrlResolution(fault, resp).infos[1].path =
                         IF getFilenameForDownload(UrlPath(srcs[k + 1]), resp) = <<>>
                         THEN <<"__unnamed__">>
                         ELSE getFilenameForDownload(UrlPath(srcs[k + 1]), resp)
                   /\ UrlResolution(fault, resp).err = IF fault = "Hash" THEN "hash" ELSE ""
    /\ \A i \in DOMAIN infos :
          infos[i].root.kind = "tmp" =>
              /\ infos[i].root.n \in Range(tmpPaths) \cap dirs
              /\ infos[i].path # <<>>
              /\ infos[i].path = <<"__unnamed__">> => ~HasSuffix(dest, <<"/">>)

\* http://h/ was downloaded for the destination /t: one info with the
\* sentinel name.
C16_Witness ==
    /\ pc = "resolving" /\ k = 1 /\ srcs[1] = URL_s
    /\ Len(infos) = 1 /\ infos[1].root.kind = "tmp"
    /\ infos[1].path = <<"__unnamed__">>

\* The calls of the given names that the finished copy made, by position.
CopyCalls(evs) == {i \in DOMAIN copied.log : copied.log[i].ev \in evs}

CopyDone == copied.stage = "done"

\* C17: content downloaded from a URL is never extracted: the copyInfo that
\* the resolution of a URL source yields has noDecompress set, and the copy
\* of it makes no Untar call, also when decompression is allowed and the
\* downloaded file is an archive; a copy of it that succeeds has gone
\* through CopyFileWithTar.
C17_DownloadNeverExtracted ==
    (CopyDone /\ IsURL(copied.orig)) =>
        /\ copied.source.noDecompress
        /\ CopyCalls({"Untar"}) = {}
        /\ (copied.err = "" => CopyCalls({"CopyFileWithTar"}) # {})

C17_Witness ==
    /\ CopyDone /\ IsURL(copied.orig)
    /\ copied.options.decompress /\ copied.archive /\ copied.srcStat = "file"
    /\ copied.err = "" /\ CopyCalls({"CopyFileWithTar"}) # {}

\* C18: whenever performCopyForInfo returns without error from a plain file
\* copy or from the extraction of an archive, and an owner was specified,
\* the copied artifact has been given that owner before the return: a
\* fixPermissions call for the same destination and the owner follows the
\* CopyFileWithTar or Untar call.
C18_OwnerRemappedAfterCopy ==
    (CopyDone /\ copied.err = "" /\ copied.options.identity.set) =>
        \A i \in CopyCalls({"CopyFileWithTar", "Untar"}) :
            \E j \in CopyCalls({"fixPermissions"}) :
                /\ j > i
                /\ copied.log[j].dest = copied.log[i].dest
                /\ copied.log[j].identity = copied.options.identity
                /\ copied.log[j].root

\* C19: for a directory source, fixPermissions is called exactly when an
\* owner was specified and CopyWithTar has succeeded, it is called after
\* CopyWithTar for the destination and the owner, and it remaps the
\* destination root exactly when the destination was not a directory
\* before the copy; without an owner, or when the copy fails, no remap is made.
C19_DirectoryOwnership ==
    (CopyDone /\ copied.srcStat = "dir") =>
        /\ CopyCalls({"fixPermissions"}) # {} <=>
               /\ copied.options.identity.set
               /\ CopyCalls({"CopyWithTar"}) # {}
               /\ copied.fault # "CopyWithTar"
        /\ \A j \in CopyCalls({"fixPermissions"}) :
               /\ \E i \in CopyCalls({"CopyWithTar"}) : i < j
               /\ copied.log[j].dest = fullPath(copied.dest)
               /\ copied.log[j].identity = copied.options.identity
               /\ copied.log[j].root <=> copied.destStat # "dir"

C19_Witness ==
    /\ CopyDone /\ copied.srcStat = "dir" /\ copied.options.identity.set
    /\ copied.destStat = "notexist" /\ copied.err = ""
    /\ \E j \in CopyCalls({"fixPermissions"}) : copied.log[j].root

\* C20: a plain file copy writes to the base name of source.path below the
\* resolved destination exactly when the resolved destination is an
\* existing directory or the declared destination path ends with the
\* separator, and to the resolved destination itself otherwise.
C20_FileCopyTarget ==
    CopyDone =>
        \A i \in CopyCalls({"CopyFileWithTar"}) :
            copied.log[i].dest =
                IF copied.destStat = "dir" \/ HasSuffix(copied.dest.path, <<Sep>>)
                THEN JoinFull(fullPath(copied.dest), Base(copied.source.path))
                ELSE fullPath(copied.dest)

C20_Witness ==
    /\ CopyDone /\ copied.destStat = "dir" /\ copied.dest.path = <<Sep, "t">>
    /\ copied.source.path = P_dx /\ copied.err = ""
    /\ \E i \in CopyCalls({"CopyFileWithTar"}) :
          copied.log[i].dest = FullPath(LayerSource(1), <<"t", Sep, "x">>)

\* The pattern d/*.
Pattern_d == <<"d", Sep, "*">>

\* The infos that a step of the loop has added.
AddedInfos == SubSeq(infos', Len(infos) + 1, Len(infos'))

\* C21: the expansion of d/* over d/{x, y, z/} with z/w below is complete
\* and exact: a resolution of the pattern that succeeds adds one info for
\* each of d/x, d/y and d/z and nothing else, so nothing below the
\* directory d/z and not d itself.
C21_WildcardExpansionExact ==
    [][(ResolutionStep /\ srcs[k + 1] = Pattern_d /\ k' = k + 1) =>
          /\ Len(AddedInfos) = 3
          /\ {AddedInfos[i].path : i \in 1..3} = {P_dx, P_dy, P_dz}]_vars

C21_Witness ==
    /\ pc = "resolving" /\ k = 1 /\ srcs[1] = Pattern_d
    /\ Len(infos) = 3 /\ infos[3].path = P_dz

\* The paths that the resolution of a declared context or image path yields,
\* in the order of the walk for a pattern.
PathsOf(src) ==
    IF src = Pattern_d THEN <<P_dx, P_dy, P_dz>>
    ELSE IF containsWildcards(src) THEN <<>>
    ELSE <<cleanOrigPath(src)>>

\* The names under which a download is resolved.
DownloadNames == {<<"a">>, <<"b">>, unnamedFilename}

\* is lists, source after source, the infos of the sources ss.
RECURSIVE InDeclaredOrder(_, _)
InDeclaredOrder(is, ss) ==
    IF ss = <<>> THEN is = <<>>
    ELSE IF IsURL(ss[1])
    THEN /\ is # <<>> /\ is[1].path \in DownloadNames /\ is[1].root.kind = "tmp"
         /\ InDeclaredOrder(Tail(is), Tail(ss))
    ELSE /\ Len(is) >= Len(PathsOf(ss[1]))
         /\ \A i \in 1..Len(PathsOf(ss[1])) :
               is[i].path = PathsOf(ss[1])[i] /\ is[i].root.kind # "tmp"
         /\ InDeclaredOrder(SubSeq(is, Len(PathsOf(ss[1])) + 1, Len(is)), Tail(ss))

\* The path and the fingerprint of each info.
Fingerprints(is) == [i \in 1..Len(is) |-> <<is[i].path, is[i].hash>>]

\* The copier as a step leaves it.
CopierAfter ==
    [source |-> source', activeLayer |-> activeLayer', tmpPaths |-> tmpPaths',
     pathCache |-> pathCache', live |-> live', dirs |-> dirs', log |-> <<>>,
     created |-> created', outstanding |-> outstanding', downloaded |-> downloaded',
     clock |-> Clock]

\* The source that a step has resolved is resolved again, by the copier as
\* the step left it and with the same response: the same paths and
\* fingerprints come back in the same order.
SameAgain ==
    \A resp \in ResponsesFor(srcs[k + 1]) :
        LET again(first, second) ==
                (first.err = "" /\ Fingerprints(first.infos) = Fingerprints(AddedInfos)) =>
                    (second.err = "" /\ Fingerprints(second.infos) = Fingerprints(AddedInfos))
        IN again(getCopyInfoForSourcePath(Copier, cfg, srcs[k + 1], dest, "none", resp),
                 getCopyInfoForSourcePath(CopierAfter, cfg, srcs[k + 1], dest, "none", resp))

\* C22: the infos collected by getCopyInfosForSourcePaths are those of the
\* sources resolved so far, source after source in declared order, the
\* infos of a pattern in the order of the walk (d/x, d/y, d/z); the list
\* returned without error is the list collected; and resolving a source
\* again with nothing changed yields the same paths and fingerprints in the
\* same order.
C22_InfosInDeclaredOrder ==
    [][/\ (ResolutionStep /\ k' = k + 1) =>
             /\ SubSeq(infos', 1, Len(infos)) = infos
             /\ InDeclaredOrder(infos', SubSeq(srcs, 1, k + 1))
             /\ SameAgain
       /\ (pc = "resolving" /\ pc' = "returned" /\ result'.err = "") =>
             result'.infos = infos]_vars

C22_Witness ==
    /\ InstructionReturned /\ result.err = ""
    /\ srcs = <<Pattern_d, P_dx>>
    /\ Fingerprints(result.infos)[1][1] = P_dx /\ Fingerprints(result.infos)[3][1] = P_dz
    /\ Len(result.infos) = 4 /\ result.infos[4].path = P_dx

\* C27: every copyInfo collected by getCopyInfosForSourcePaths, and so every
\* one in a list it returns without error, has a non-empty fingerprint,
\* whether it was hashed from a file, from a directory walk, loaded from
\* the path cache, found by a pattern or downloaded; no empty fingerprint
\* is in the path cache either.
C27_FingerprintNeverEmpty ==
    /\ \A i \in 1..Len(infos) : infos[i].hash # <<>>
    /\ (InstructionReturned /\ result.err = "") =>
           \A i \in 1..Len(result.infos) : result.infos[i].hash # <<>>
    /\ \A key \in DOMAIN pathCache : pathCache[key] # <<>>

C27_Witness ==
    /\ InstructionReturned /\ result.err = ""
    /\ srcs = <<P_d, Pattern_d>> /\ Len(result.infos) = 4
    /\ result.infos[1].hash[1] = "dir" /\ result.infos[2].hash[1] = "file"
    /\ result.infos[4].hash[1] = "dir"

P_n == <<"n">>

NotFoundInContext == "file not found in build context or excluded by .dockerignore"

\* C28: resolving the path n, which is in no tree, never succeeds: the
\* instruction returns an error and no info, and the path cache is left as
\* it was. When the source was there to be looked at, the error is the
\* not-found error made by copyInfoForFile, which carries the path n as the
\* instruction gave it and not a path below the source's root; it is wrapped
\* as "file not found in build context or excluded by .dockerignore" for
\* the build context and returned as it is for an image, and it differs
\* from the error of a failed Hash.
C28_MissingPathNotFound ==
    [][(ResolutionStep /\ srcs[k + 1] = P_n) =>
          /\ pc' = "returned" /\ result'.err # "" /\ result'.infos = <<>>
          /\ infos' = infos
          /\ pathCache' = pathCache
          /\ Events(log', {"Stat"}) # {} =>
                /\ \E i \in Events(log', {"PathError"}) : log'[i].arg = P_n
                /\ \A i \in Events(log', {"PathError"}) : log'[i].arg = P_n
                /\ result'.err = IF cfg.image THEN "notexist" ELSE NotFoundInContext
                /\ result'.err # "hash"]_vars

C28_Witness ==
    /\ InstructionReturned /\ k < Len(srcs) /\ srcs[k + 1] = P_n
    /\ cfg.image /\ result.err = "notexist"
    /\ \E i \in Events(log, {"PathError"}) : log[i].arg = P_n

FetchDone == fetch.stage = "done"

\* C25: the name downloadSource returns for a download is the final segment
\* of the URL's path when that path is not empty and does not end with a
\* slash, whatever the Content-Disposition header says; otherwise the
\* basename of the header's filename parameter when the header is there and
\* parses and the parameter is not empty and does not end with a slash;
\* otherwise it is empty, and the file is then written as __unnamed__.
C25_FilenamePrecedence ==
    (FetchDone /\ fetch.err = "") =>
        /\ fetch.path =
              IF UrlPath(fetch.url) # <<>> /\ ~HasSuffix(UrlPath(fetch.url), <<Sep>>)
              THEN <<fetch.url[Len(fetch.url)]>>
              ELSE IF /\ fetch.resp.cd.present /\ fetch.resp.cd.parses
                      /\ fetch.resp.cd.filename # <<>>
                      /\ ~HasSuffix(fetch.resp.cd.filename, <<Sep>>)
              THEN <<fetch.resp.cd.filename[Len(fetch.resp.cd.filename)]>>
              ELSE <<>>
        /\ fetch.file.name = IF fetch.path = <<>> THEN unnamedFilename ELSE fetch.path

C25_Witness ==
    /\ FetchDone /\ fetch.err = ""
    /\ UrlPath(fetch.url) = <<"/", "d", "/">> /\ fetch.resp.cd.filename = <<"d", "/", "b">>
    /\ fetch.path = <<"b">>

\* C26: after a download that succeeded the access time and the
\* modification time of the file are both the time of the Last-Modified
\* header when the header is there and parses, and both the zero time when
\* it is absent or does not parse; neither depends on the time on the wall
\* clock during the fetch.
C26_TimesFromLastModified ==
    (FetchDone /\ fetch.err = "") =>
        /\ fetch.file.atime = fetch.file.mtime
        /\ fetch.file.mtime =
              IF fetch.resp.lastmod.present /\ fetch.resp.lastmod.parses
              THEN fetch.resp.lastmod.time ELSE 0
        /\ fetch.file.mtime # fetch.now

C26_Witness ==
    /\ FetchDone /\ fetch.err = "" /\ fetch.now = 8
    /\ fetch.resp.lastmod.present /\ ~fetch.resp.lastmod.parses
    /\ fetch.file.atime = 0 /\ fetch.file.mtime = 0

\* C29: a fetch on which the cancellation signal was raised while it was in
\* flight returns an error and has removed its temporary directory.
C29_CancellationAbortsFetch ==
    (FetchDone /\ fetch.cancelled) => (fetch.err # "" /\ fetch.dirs = {})

GlobDone == glob.stage = "done"

\* The tree a configuration's source is rooted at.
GlobTree(c) == FSByName(IF c.image THEN c.imgfs ELSE c.ctx)

\* C30: a resolution with wildcards allowed calls copyWithWildcards at most
\* once, and every calcCopyInfo call made after that call, one per match,
\* runs with wildcards disabled, also for a match whose own name holds
\* glob metacharacters ([a], d/[a]): the infos returned are those of the
\* matched entries themselves, and the expansion makes no more calcCopyInfo
\* calls than the tree has entries.
C30_NoReexpansion ==
    GlobDone =>
        /\ Cardinality(Events(glob.log, {"copyWithWildcards"})) <= 1
        /\ \A i \in Events(glob.log, {"calcCopyInfo"}) :
              (\E j \in Events(glob.log, {"copyWithWildcards"}) : j < i) =>
                  glob.log[i].n = 0
        /\ Cardinality(Events(glob.log, {"calcCopyInfo"}))
              <= 1 + Cardinality(DOMAIN GlobTree(glob.cfg))
        /\ glob.err = "" =>
              \A i \in 1..Len(glob.paths) :
                  /\ glob.paths[i] \in DOMAIN GlobTree(glob.cfg)
                  /\ Match(glob.pattern, glob.paths[i])

C30_Witness ==
    /\ GlobDone /\ glob.err = "" /\ glob.pattern = <<"d", "/", "*">>
    /\ glob.paths = <<<<"d", "/", "[a]">>, <<"d", "/", "a">>>>
    /\ Cardinality(Events(glob.log, {"calcCopyInfo"})) = 3

SessionsRunning == sessions.stage = "running"

\* The key of the path p of the image in the path cache.
SessionKey(p) == cacheKey(SessionConfig("A"), p)

\* The fingerprints that are about at a moment: the entry of the path cache
\* for the path, and what the copiers that returned without error returned.
SessionFingerprints(ss) ==
    {ss.cache[key] : key \in {SessionKey(ss.path)} \cap DOMAIN ss.cache}
        \cup {ss.s[i].ret : i \in {j \in SessionIds : /\ ss.s[j].pc \in {"returned", "done"}
                                                       /\ ss.s[j].err = ""}}

\* C23: while two copiers of one image resolve the same path, there is one
\* fingerprint of the path only: the entry of the path cache for
\* (ImageID, path), when there is one, and what each copier returns without
\* error are the same value, and no step removes the entry or changes it.
C23_CacheEntryDeterministic ==
    [][(SessionsRunning /\ SessionsRunning') =>
          /\ Cardinality(SessionFingerprints(sessions')) <= 1
          /\ SessionKey(sessions.path) \in DOMAIN sessions.cache =>
                /\ SessionKey(sessions.path) \in DOMAIN sessions'.cache
                /\ sessions'.cache[SessionKey(sessions.path)]
                     = sessions.cache[SessionKey(sessions.path)]]_vars

\* C24: while two copiers of one image run at the same time, no read-write
\* layer is the activeLayer of both, the activeLayer of a copier is a live
\* layer that this copier's own NewRWLayer call made, and a copier's
\* Cleanup releases no layer but its own activeLayer: the layer of the
\* other copier stays live.
C24_LayerOwnedByOneSession ==
    [][SessionsRunning' =>
          /\ \A i \in SessionIds :
                sessions'.s[i].activeLayer # 0 =>
                    /\ \A j \in SessionIds \ {i} :
                          sessions'.s[j].activeLayer # sessions'.s[i].activeLayer
                    /\ sessions'.s[i].activeLayer \in sessions'.live
                    /\ sessions'.s[i].activeLayer \in sessions'.s[i].made
          /\ SessionsRunning =>
                \A i \in SessionIds :
                    (sessions.s[i].pc = "returned" /\ sessions'.s[i].pc = "done") =>
                        /\ sessions.live \ sessions'.live
                              = {sessions.s[i].activeLayer} \ {0}
                        /\ \A j \in SessionIds \ {i} : sessions'.s[j] = sessions.s[j]]_vars

C24_Witness ==
    /\ SessionsRunning
    /\ sessions.s[1].pc = "done" /\ sessions.s[1].made = {1}
    /\ sessions.s[2].activeLayer = 2 /\ sessions.live = {2}

WalkDone == walked.stage = "done"

\* C31: the walk of a directory asks for no fingerprint of the directory
\* itself, whether it is the source root or a directory below it: every
\* Hash call is for an entry below the directory, and the list holds one
\* fingerprint per such entry that can be hashed.
C31_WalkedDirectoryItselfSkipped ==
    WalkDone =>
        /\ \A i \in Events(walked.log, {"Hash"}) :
              /\ walked.log[i].arg # walked.root
              /\ HasPrefix(walked.log[i].arg, Join(walked.root, <<>>))
        /\ Len(walked.subfiles)
              = Cardinality({p \in DOMAIN FSByName(walked.fs) :
                                /\ p # walked.root
                                /\ HasPrefix(p, walked.root)
                                /\ FSByName(walked.fs)[p].readable})

\* The source of the copy is extracted: decompression is asked for, the file
\* is an archive and the source does not forbid it.
CopyExtracts ==
    /\ copied.options.decompress
    /\ copied.archive
    /\ ~copied.source.noDecompress

\* The full paths resolve and the source is there.
CopySourceFound ==
    /\ copied.fault \notin {"source.fullPath", "dest.fullPath"}
    /\ copied.srcStat \in {"dir", "file"}

\* C32: a copy takes one of three branches, in this order: a directory is
\* copied recursively and never extracted, whatever decompress says; a file
\* is extracted if and only if decompress is set, the file is an archive and
\* the source does not forbid decompression; any other file is copied as a
\* plain file. When a full path does not resolve or the source is not found,
\* nothing is copied, extracted or given an owner.
C32_CopyTakesOneBranchInOrder ==
    CopyDone =>
        /\ Cardinality({copied.log[i].ev :
                            i \in CopyCalls({"CopyWithTar", "Untar", "CopyFileWithTar"})}) <= 1
        /\ ~CopySourceFound => copied.log = <<>> /\ copied.err # ""
        /\ CopySourceFound /\ copied.srcStat = "dir" =>
              /\ CopyCalls({"CopyWithTar"}) # {} \/ copied.destStat = "error"
              /\ CopyCalls({"Untar", "CopyFileWithTar"}) = {}
        /\ CopySourceFound /\ copied.srcStat = "file" =>
              /\ CopyCalls({"CopyWithTar"}) = {}
              /\ CopyExtracts =>
                    /\ CopyCalls({"Untar"}) # {} \/ copied.fault = "Open"
                    /\ CopyCalls({"CopyFileWithTar"}) = {}
              /\ ~CopyExtracts =>
                    /\ CopyCalls({"Untar"}) = {}
                    /\ \/ CopyCalls({"CopyFileWithTar"}) # {}
                       \/ copied.destStat = "error"
                       \/ copied.fault = "MkdirAll"

\* A directory that is an archive by name is copied with decompress set.
C32_Witness ==
    /\ CopyDone
    /\ copied.srcStat = "dir"
    /\ CopyExtracts
    /\ copied.fault = ""
    /\ CopyCalls({"CopyWithTar"}) # {}

\* The iteration ended the loop with an error.
ResolutionFailed == ResolutionStep /\ pc' = "returned"

\* The calls of the step whose failure the log shows.
FailedCalls(l) ==
    {i \in DOMAIN l : \/ l[i].ev \in {"NewRWLayerFailed", "PathError"}
                       \/ (l[i].ev = "GET" /\ l[i].n = 0)}

\* C33: resolution is fail-fast and never retries. An iteration of the loop
\* that fails returns its error with no infos; the call that failed was made
\* once; the iteration has touched no source but its own, and no iteration
\* follows it. A failed external call always ends the loop.
C33_ResolutionFailFast ==
    [][/\ ResolutionStep =>
             /\ \A i \in Events(log', {"GET"}) : log'[i].arg = srcs[k + 1]
             /\ \A i \in DOMAIN log' :
                    log'[i].ev = "calcCopyInfo" /\ log'[i].n = 1 => log'[i].arg = srcs[k + 1]
             /\ Cardinality(Events(log', {"GET"})) <= 1
             /\ Cardinality({i \in DOMAIN log' :
                                log'[i].ev = "calcCopyInfo" /\ log'[i].n = 1}) <= 1
             /\ Cardinality(Events(log', {"NewRWLayer", "NewRWLayerFailed"})) <= 1
             /\ \A i, j \in Events(log', {"Stat", "Load"}) :
                    log'[i].ev = log'[j].ev /\ log'[i].arg = log'[j].arg => i = j
             /\ FailedCalls(log') # {} => pc' = "returned"
             /\ pc' = "resolving" => k' = k + 1
       /\ ResolutionFailed =>
             /\ result'.op = "createCopyInstruction"
             /\ result'.err # ""
             /\ result'.infos = <<>>
             /\ k' = k /\ srcs' = srcs
             /\ Cardinality(FailedCalls(log')) <= 1
             /\ result'.err = "hash" =>
                    /\ log'[Len(log')].ev = "Hash"
                    /\ \A i \in Events(log', {"Hash"}) :
                           log'[i].arg = log'[Len(log')].arg => i = Len(log')
       /\ pc = "returned" /\ vars' # vars =>
             pc' = "idle" /\ log' = <<>> /\ srcs' = <<>>]_vars

\* The first of two declared sources has failed on its request: the second
\* is left alone.
C33_Witness ==
    /\ pc = "returned"
    /\ Len(srcs) = 2 /\ k = 0
    /\ result.err = "GET"
    /\ Cardinality(Events(log, {"GET"})) = 1

\* The step resolves a URL for a copier that refuses downloads (COPY).
CopyOfURLStep ==
    /\ ResolutionStep
    /\ cfg.download = "errOnSourceDownload"
    /\ IsURL(srcs[k + 1])

\* C34: a copier that refuses downloads fails every URL source with "source
\* can't be a URL for COPY", and does so without a request, a temporary
\* directory, a tracked path or a layer: the step makes no external call and
\* leaves the copier and the disk as they were.
C34_CopyRefusesURL ==
    [][CopyOfURLStep =>
          /\ pc' = "returned"
          /\ result'.err = "source can't be a URL for COPY"
          /\ result'.infos = <<>>
          /\ log' = <<>>
          /\ UNCHANGED <<source, activeLayer, tmpPaths, pathCache, live, dirs,
                         created, outstanding, downloaded>>]_vars

\* A COPY --from has resolved an image path, which made the layer, and then
\* refused a URL.
C34_Witness ==
    /\ pc = "returned"
    /\ cfg.download = "errOnSourceDownload" /\ cfg.image
    /\ Len(srcs) = 2 /\ k = 1 /\ IsURL(srcs[2])
    /\ activeLayer # 0
    /\ result.err = "source can't be a URL for COPY"

\* The finished copy is that of a download whose filename could not be
\* derived: its copyInfo carries the placeholder name.
CopyOfUnnamed ==
    /\ CopyDone
    /\ copied.source.root.kind = "tmp"
    /\ copied.source.path = unnamedFilename

\* C36: the placeholder name never becomes the basename of a copy target: a
\* download without a derived filename that resolves is copied to exactly
\* the declared destination path, also when the destination has no trailing
\* slash but is there as a directory.
C36_UnnamedCopiedToDeclaredPath ==
    CopyOfUnnamed =>
        \A i \in CopyCalls({"CopyFileWithTar"}) :
            /\ copied.log[i].dest = fullPath(copied.dest)
            /\ Base(copied.log[i].dest.path) # unnamedFilename

\* C35: the entries of the path cache for distinct pairs of image identity
\* and path never alias: what the cache holds under the key of an identified
\* image and one of its paths is a fingerprint of that path in that image,
\* the fingerprint of the file's content for a file and a directory
\* fingerprint for a directory.
C35_CacheKeysNeverAlias ==
    \A c \in Configs :
        c.image /\ c.id # <<>> =>
            \A p \in DOMAIN FSByName(c.imgfs) :
                cacheKey(c, p) \in DOMAIN pathCache =>
                    IF FSByName(c.imgfs)[p].kind = "dir"
                    THEN pathCache[cacheKey(c, p)][1] = "dir"
                    ELSE pathCache[cacheKey(c, p)]
                            = ContentFingerprint(FSByName(c.imgfs)[p].data)

\* The reads of a log through the copier's source.
SourceReads(l) == Events(l, {"Stat", "Hash", "Walk", "copyWithWildcards"})

\* C37: with an image source, every stat, hash and walk of a resolution goes
\* through a source rooted at the layer that is active and not released:
\* when there was no active layer, the layer is created and the source
\* rebound to it before the first read, and the layer is none that was
\* released; an active layer is kept; the build context is never read.
C37_ReadsThroughActiveLayer ==
    [][ResolutionStep /\ cfg.image =>
          /\ \A i \in SourceReads(log') :
                /\ activeLayer' # 0
                /\ activeLayer' \in live'
                /\ source' = LayerSource(activeLayer')
                /\ log'[i].n = activeLayer'
                /\ activeLayer = 0 =>
                      \E j \in Events(log', {"NewRWLayer"}) :
                         j < i /\ log'[j].n = activeLayer'
          /\ activeLayer # 0 =>
                activeLayer' = activeLayer /\ Events(log', {"NewRWLayer"}) = {}
          /\ \A j \in Events(log', {"NewRWLayer"}) :
                /\ log'[j].n \notin live
                /\ source.kind = "layer" => log'[j].n # source.n]_vars

\* After a Cleanup the copier of an image has resolved a source through a
\* second layer, while its source was still that of the released one.
C37_Witness ==
    /\ pc = "resolving" /\ cfg.image /\ k = 1
    /\ activeLayer = 2 /\ live = {2}
    /\ source = LayerSource(2)
    /\ \E i \in SourceReads(log) : log[i].n = 2

\* Successful NewRWLayer calls minus Release calls is 1 with an active layer
\* and 0 without; the layers not released are the active one.
LayerAccounting ==
    /\ outstanding = IF activeLayer # 0 THEN 1 ELSE 0
    /\ live = IF activeLayer # 0 THEN {activeLayer} ELSE {}

\* C38: the accounting of layers is exact at every moment. Each successful
\* NewRWLayer adds one and each Release takes one away, and these are the
\* only changes. A failed NewRWLayer leaves no active layer, so that Cleanup
\* releases nothing and the next resolution of a path tries again; a layer
\* whose source could not be made stays the active one, and Cleanup
\* releases it.
C38_LayerAccounting ==
    /\ []LayerAccounting
    /\ [][/\ outstanding' = outstanding + Cardinality(Events(log', {"NewRWLayer"}))
                                          - Cardinality(Events(log', {"Release"}))
          /\ ResolutionStep /\ Events(log', {"NewRWLayerFailed"}) # {} =>
                /\ activeLayer = 0 /\ activeLayer' = 0
                /\ result'.err = "NewRWLayer"
          /\ ResolutionStep /\ cfg.image /\ activeLayer = 0 /\ ~IsURL(srcs[k + 1]) =>
                Events(log', {"NewRWLayer", "NewRWLayerFailed"}) # {}
          /\ ResolutionStep /\ result'.err = "failed to create context for copy" =>
                /\ activeLayer = 0 /\ activeLayer' # 0
                /\ Cardinality(Events(log', {"NewRWLayer"})) = 1
          /\ CleanupStep =>
                /\ activeLayer' = 0
                /\ activeLayer = 0 => Events(log', {"Release"}) = {}
                /\ activeLayer # 0 =>
                      \E i \in Events(log', {"Release"}) :
                         /\ log'[i].n = activeLayer
                         /\ Events(log', {"Release"}) = {i}]_vars

\* The source rooted at a new layer could not be made: the layer is the
\* active one, and the copier has no source.
C38_Witness ==
    /\ pc = "returned"
    /\ result.err = "failed to create context for copy"
    /\ activeLayer # 0 /\ outstanding = 1
    /\ source = NilSource

====
